---- MODULE Spec2Model ----
(***************************************************************************)
(* A model of gd/session.py (GDSession) and gd/utils/routes.py (Route).    *)
(*                                                                         *)
(* Python values are tagged records of one shape, so that values of        *)
(* different Python types can be compared:                                 *)
(*   None, an int, a str (a sequence of one-character strings), a list.    *)
(* A server reply is a raw text body; http.request turns a body that is a  *)
(* bare integer into an int and hands every other body back as text.       *)
(***************************************************************************)
EXTENDS Integers, Sequences, FiniteSets, TLC

VARIABLES
    client,     \* the fields of the one Client the operations share
    requests,   \* the requests handed to http.request so far, oldest first
    calls,      \* the session operations in flight, one per slot
    last,       \* the slot of the call that finished most recently, 0 if none
    applied,    \* the credentials the Client began with, then those each returned login set
    tasks,      \* the tasks given to run_many (asyncio.gather's children)
    outer,      \* the future asyncio.gather returned to run_many
    rm          \* run_many itself: waiting, returned or raised

vars == <<client, requests, calls, last, applied, tasks, outer, rm>>
sessionVars == <<client, requests, calls, last, applied>>
gatherVars == <<tasks, outer, rm>>

(***************************************************************************)
(* Bounds of the model.                                                    *)
(***************************************************************************)
MaxTasks == 3
MaxReplyLen == 5

(***************************************************************************)
(* Python values.                                                          *)
(***************************************************************************)
Val(k, n, chars, items) == [k |-> k, n |-> n, chars |-> chars, items |-> items]
None == Val("none", 0, <<>>, <<>>)
IntV(n) == Val("int", n, <<>>, <<>>)
StrV(cs) == Val("str", 0, cs, <<>>)
ListV(xs) == Val("list", 0, <<>>, xs)
BoolV(b) == Val("bool", IF b THEN 1 ELSE 0, <<>>, <<>>)

\* bool(v): what `if elem` sees
Truthy(v) ==
    CASE v.k = "none" -> FALSE
      [] v.k = "int" -> v.n # 0
      [] v.k = "bool" -> v.n # 0
      [] v.k = "str" -> Len(v.chars) > 0
      [] v.k = "list" -> Len(v.items) > 0
      [] v.k = "text" -> TRUE

\* _iterable(maybe_iterable): iter() succeeds on str and list, fails on int and None
Iterable(v) == v.k \in {"str", "list"}

\* what iterating v yields: the items of a list, the one-character strs of a str
Elements(v) ==
    IF v.k = "list" THEN v.items
    ELSE [i \in 1..Len(v.chars) |-> StrV(<<v.chars[i]>>)]

\* _is_not_empty(sequence): bool(len(sequence))
IsNotEmpty(s) == Len(s) # 0

\* list(chain.from_iterable(res))
RECURSIVE ChainFromIterable(_)
ChainFromIterable(res) ==
    IF res = <<>> THEN <<>>
    ELSE Elements(Head(res)) \o ChainFromIterable(Tail(res))

\* run_many after the gather: the filter and the conditional flattening
RunManyDropsNothing(res) ==
    IF \A i \in 1..Len(res) : Iterable(res[i])
    THEN ChainFromIterable(res)
    ELSE res

RunManyCombine(res) ==
    LET kept == SelectSeq(res, Truthy)
    IN  IF \A i \in 1..Len(kept) : Iterable(kept[i])
        THEN ChainFromIterable(kept)
        ELSE kept

(***************************************************************************)
(* Text: a str is a sequence of one-character strings.                     *)
(***************************************************************************)
Digits == {"0", "1", "2", "3", "4", "5", "6", "7", "8", "9"}

DigitValue(c) ==
    CASE c = "0" -> 0 [] c = "1" -> 1 [] c = "2" -> 2 [] c = "3" -> 3 [] c = "4" -> 4
      [] c = "5" -> 5 [] c = "6" -> 6 [] c = "7" -> 7 [] c = "8" -> 8 [] c = "9" -> 9

\* str.isdigit() over the ASCII digits
IsDigit(cs) == Len(cs) > 0 /\ \A i \in 1..Len(cs) : cs[i] \in Digits

RECURSIVE DigitsToNat(_)
DigitsToNat(cs) ==
    IF cs = <<>> THEN 0
    ELSE 10 * DigitsToNat(SubSeq(cs, 1, Len(cs) - 1)) + DigitValue(cs[Len(cs)])

\* the texts int() accepts, over the alphabet of the model: digits, with or without a sign
IsIntText(cs) == IsDigit(cs) \/ (Len(cs) > 1 /\ cs[1] = "-" /\ IsDigit(Tail(cs)))

\* int(text)
ParseInt(cs) == IF cs[1] = "-" THEN 0 - DigitsToNat(Tail(cs)) ELSE DigitsToNat(cs)

RECURSIVE NatToDigits(_)
NatToDigits(n) ==
    IF n < 10 THEN <<CHOOSE c \in Digits : DigitValue(c) = n>>
    ELSE Append(NatToDigits(n \div 10), CHOOSE c \in Digits : DigitValue(c) = n % 10)

\* str(n) of an int
IntToText(n) == IF n < 0 THEN <<"-">> \o NatToDigits(0 - n) ELSE NatToDigits(n)

\* text.split(sep) for a one-character separator
RECURSIVE Split(_, _)
Split(cs, sep) ==
    IF \A i \in 1..Len(cs) : cs[i] # sep THEN <<cs>>
    ELSE LET at == CHOOSE i \in 1..Len(cs) : cs[i] = sep /\ \A j \in 1..(i - 1) : cs[j] # sep
         IN  <<SubSeq(cs, 1, at - 1)>> \o Split(SubSeq(cs, at + 1, Len(cs)), sep)

\* every text over an alphabet, up to a length
RECURSIVE TextsUpTo(_, _)
TextsUpTo(alphabet, n) ==
    IF n = 0 THEN {<<>>}
    ELSE LET shorter == TextsUpTo(alphabet, n - 1)
         IN  shorter \cup {Append(t, c) : t \in shorter, c \in alphabet}

(***************************************************************************)
(* http.request(route, parameters, error_codes, raise_errors): the reply   *)
(* body is a text, or a text already cut at its '#' into sections (a       *)
(* listing reply). A body that is a bare integer comes back as an int; if  *)
(* it is a key of error_codes and raise_errors is set, its error is raised.*)
(***************************************************************************)
TextBody(cs) == StrV(cs)
SectionsBody(secs) == Val("text", 0, <<>>, secs)

HttpRequest(body, codes, raise_errors) ==
    LET resp == IF body.k = "str" /\ IsIntText(body.chars)
                THEN IntV(ParseInt(body.chars)) ELSE body
    IN  IF raise_errors /\ resp.k = "int" /\ resp.n \in DOMAIN codes
        THEN [k |-> "raise", exc |-> codes[resp.n], resp |-> None]
        ELSE [k |-> "return", exc |-> "none", resp |-> resp]

Raise(exc) == [k |-> "raise", exc |-> exc, val |-> None]
Return(val) == [k |-> "return", exc |-> "none", val |-> val]

(***************************************************************************)
(* The Client.                                                             *)
(***************************************************************************)
IdleClient ==
    [name |-> "", password |-> "", account_id |-> 0, id |-> 0,
     save |-> "none", save_api |-> "none"]

\* client.encodedpass: the password under the game's encoding
EncodedPass(c) == [gjp |-> c.password]

ClientCredentials(c) == <<c.name, c.password, c.account_id, c.id>>

\* check_logged_obj(client, name): raises unless the Client is logged in
IsLogged(c) == c.account_id # 0 /\ c.id # 0 /\ c.name # "" /\ c.password # ""

(***************************************************************************)
(* Params: put_definer and the other put_ methods each set one named field.*)
(***************************************************************************)
Put(params, key, value) ==
    [k \in DOMAIN params \cup {key} |-> IF k = key THEN value ELSE params[k]]

Request(route, params) == [route |-> route, params |-> params]

(***************************************************************************)
(* search_levels_on_page, up to its await of http.request: the parameters, *)
(* or the error of check_logged_obj.                                       *)
(* user is None, an int, or a user object with an id.                      *)
(***************************************************************************)
NoUser == [k |-> "none", id |-> 0]
UserId(n) == [k |-> "int", id |-> n]
UserObject(n) == [k |-> "user", id |-> n]

SearchBaseParams(page, query, strategy) ==
    Put(Put(Put(Put(<<>>, "search", StrV(query)), "page", IntV(page)),
            "total", IntV(0)), "strategy", strategy)

SearchWithAuth(params, c) ==
    Put(Put(params, "accountid", IntV(c.account_id)), "gjp", EncodedPass(c))

SearchWithGauntlet(params, gauntlet) ==
    IF gauntlet.k # "none" THEN Put(params, "gauntlet", gauntlet) ELSE params

SearchParamsUnchecked(page, query, strategy, user, gauntlet, c) ==
    LET base == SearchBaseParams(page, query, strategy)
        id == IF user.k = "none" THEN c.id ELSE user.id
        p == IF strategy = "BY_USER"
             THEN Put(IF user.k = "none"
                      THEN Put(SearchWithAuth(base, c), "local", IntV(1))
                      ELSE base, "search", IntV(id))
             ELSE IF strategy = "FRIENDS" THEN SearchWithAuth(base, c)
             ELSE base
    IN  Return(SearchWithGauntlet(p, gauntlet))

\* the same without the override of the search field
SearchParamsKeepingQuery(page, query, strategy, user, gauntlet, c) ==
    LET base == SearchBaseParams(page, query, strategy)
    IN  IF strategy = "BY_USER"
        THEN IF user.k = "none"
             THEN IF ~IsLogged(c) THEN Raise("NotLoggedIn")
                  ELSE Return(SearchWithGauntlet(
                         Put(SearchWithAuth(base, c), "local", IntV(1)), gauntlet))
             ELSE Return(SearchWithGauntlet(base, gauntlet))
        ELSE IF strategy = "FRIENDS"
        THEN IF ~IsLogged(c) THEN Raise("NotLoggedIn")
             ELSE Return(SearchWithGauntlet(SearchWithAuth(base, c), gauntlet))
        ELSE Return(SearchWithGauntlet(base, gauntlet))

SearchParams(page, query, strategy, user, gauntlet, c) ==
    LET base == SearchBaseParams(page, query, strategy)
    IN  IF strategy = "BY_USER"
        THEN IF user.k = "none"
             THEN IF ~IsLogged(c) THEN Raise("NotLoggedIn")
                  ELSE Return(SearchWithGauntlet(
                         Put(Put(SearchWithAuth(base, c), "local", IntV(1)),
                             "search", IntV(c.id)), gauntlet))
             ELSE Return(SearchWithGauntlet(Put(base, "search", IntV(user.id)), gauntlet))
        ELSE IF strategy = "FRIENDS"
        THEN IF ~IsLogged(c) THEN Raise("NotLoggedIn")
             ELSE Return(SearchWithGauntlet(SearchWithAuth(base, c), gauntlet))
        ELSE Return(SearchWithGauntlet(base, gauntlet))

SearchCodes == [n \in {-1} |-> "MissingAccess"]

(***************************************************************************)
(* search_levels_on_page from the reply on. A listing reply has the        *)
(* sections levels, creators, songs; each section is its records, already  *)
(* cut at the separators and mapped by the parser (empty pieces dropped).  *)
(*   level record:   [id, song_id, audio_track, creator_id]                *)
(*   creator record: [id, name, account_id]     song record: [id]          *)
(***************************************************************************)
\* utils.get(sequence, id=id): the first element with that id, or None
Get(pool, id) ==
    IF \E i \in 1..Len(pool) : pool[i].id = id
    THEN pool[CHOOSE i \in 1..Len(pool) :
                 pool[i].id = id /\ \A j \in 1..(i - 1) : pool[j].id # id]
    ELSE [id |-> -1, kind |-> "None"]

\* the same, looking every song up in the reply's song section
SongOfAlwaysLookedUp(data, songs) == Get(songs, data.song_id)

SongOf(data, songs) ==
    IF data.song_id = 0
    THEN [id |-> data.audio_track, kind |-> "official"]
    ELSE Get(songs, data.song_id)

CreatorOf(data, creators) ==
    IF \E i \in 1..Len(creators) : creators[i].id = data.creator_id
    THEN Get(creators, data.creator_id)
    ELSE [id |-> data.creator_id, name |-> "unknown", account_id |-> 0]

LevelConvert(data, songs, creators) ==
    [id |-> data.id, song |-> SongOf(data, songs), creator |-> CreatorOf(data, creators)]

SearchParse(http) ==
    IF http.k = "raise" THEN Raise(http.exc)
    ELSE LET resp == http.resp
         IN  IF ~Truthy(resp) THEN Return(ListV(<<>>))
             ELSE IF resp.k = "int" THEN Raise("AttributeError")
             ELSE IF resp.k = "str" \/ Len(resp.items) < 3 THEN Raise("ValueError")
             ELSE LET lvdata == resp.items[1]
                      creators == resp.items[2]
                      songs == [i \in 1..Len(resp.items[3]) |->
                                   [id |-> resp.items[3][i].id, kind |-> "custom"]]
                  IN  Return(ListV([i \in 1..Len(lvdata) |->
                                       LevelConvert(lvdata[i], songs, creators)]))

(***************************************************************************)
(* asyncio.gather over the tasks, return_exceptions left False, as        *)
(* run_many calls it:                                                      *)
(* the outer future gets the first exception as soon as a child            *)
(* raises, and the list of results, in the order of the arguments, when    *)
(* the last child returns. The children are not cancelled.                 *)
(***************************************************************************)
Task(st, res, page, body) == [st |-> st, res |-> res, page |-> page, body |-> body]

Results == [i \in 1..Len(tasks) |-> tasks[i].res]

Unfinished(i) == tasks[i].st \notin {"done", "failed"}

\* the done-callback of child i, which returned v
GatherChildReturnedInCompletionOrder(i, v) ==
    outer' =
        IF outer.st # "pending" THEN outer
        ELSE IF \A j \in 1..Len(tasks) : j # i => tasks[j].st = "done"
             THEN [st |-> "result", res |-> Append(outer.res, v), exc |-> "none"]
             ELSE [outer EXCEPT !.res = Append(outer.res, v)]

GatherChildReturned(i, v) ==
    outer' =
        IF outer.st # "pending" THEN outer
        ELSE IF \A j \in 1..Len(tasks) : j # i => tasks[j].st = "done"
             THEN [st |-> "result",
                   res |-> [j \in 1..Len(tasks) |-> IF j = i THEN v ELSE tasks[j].res],
                   exc |-> "none"]
             ELSE outer

\* the done-callback of child i, which raised exc
GatherChildRaised(i, exc) ==
    outer' =
        IF outer.st # "pending" THEN outer
        ELSE [st |-> "exception", res |-> <<>>, exc |-> exc]

\* run_many resumes from its await of the gather
RunManyResume ==
    /\ rm.st = "waiting"
    /\ outer.st # "pending"
    /\ rm' = IF outer.st = "exception"
             THEN [st |-> "raised", res |-> <<>>, exc |-> outer.exc]
             ELSE [st |-> "returned", res |-> RunManyCombine(outer.res), exc |-> "none"]
    /\ UNCHANGED <<tasks, outer>>
    /\ UNCHANGED sessionVars

(***************************************************************************)
(* run_many over tasks that return arbitrary values or raise.              *)
(***************************************************************************)
TaskValues ==
    { None, IntV(0), IntV(1), IntV(2), IntV(3), StrV(<<>>), StrV(<<"a", "b">>),
      ListV(<<>>), ListV(<<IntV(1), IntV(2)>>), ListV(<<IntV(3)>>) }

SessionIdle ==
    /\ client = IdleClient
    /\ requests = <<>>
    /\ calls = <<>>
    /\ last = 0
    /\ applied = <<ClientCredentials(client)>>

InitGather ==
    /\ SessionIdle
    /\ \E n \in 0..MaxTasks : tasks = [i \in 1..n |-> Task("pending", None, 0, None)]
    /\ outer = IF tasks = <<>>
               THEN [st |-> "result", res |-> <<>>, exc |-> "none"]
               ELSE [st |-> "pending", res |-> <<>>, exc |-> "none"]
    /\ rm = [st |-> "waiting", res |-> <<>>, exc |-> "none"]

TaskReturns ==
    \E i \in 1..Len(tasks) : \E v \in TaskValues :
        /\ tasks[i].st = "pending"
        /\ tasks' = [tasks EXCEPT ![i].st = "done", ![i].res = v]
        /\ GatherChildReturned(i, v)
        /\ UNCHANGED rm
        /\ UNCHANGED sessionVars

TaskRaises ==
    \E i \in 1..Len(tasks) :
        /\ tasks[i].st = "pending"
        /\ tasks' = [tasks EXCEPT ![i].st = "failed"]
        /\ GatherChildRaised(i, "Exception")
        /\ UNCHANGED rm
        /\ UNCHANGED sessionVars

NextGather == TaskReturns \/ TaskRaises \/ RunManyResume

SpecGather == InitGather /\ [][NextGather]_vars

(***************************************************************************)
(* search_levels: one search_levels_on_page task per page, raise_errors    *)
(* off, handed to run_many. The tasks start in the order of the pages and  *)
(* run to their await before any reply is handled; the replies arrive in   *)
(* any order.                                                              *)
(***************************************************************************)
LoggedClient ==
    [name |-> "u1", password |-> "p1", account_id |-> 11, id |-> 12,
     save |-> "none", save_api |-> "none"]

LevelOne == [id |-> 1, song_id |-> 0, audio_track |-> 3, creator_id |-> 5]
LevelTwo == [id |-> 2, song_id |-> 9, audio_track |-> 0, creator_id |-> 6]
LevelSections == {<<>>, <<LevelOne>>, <<LevelTwo>>, <<LevelTwo, LevelOne>>}

CreatorSection == <<[id |-> 5, name |-> "c5", account_id |-> 50]>>
SongSection == <<[id |-> 9]>>

ErrorCodeBody == TextBody(<<"-", "1">>)

ListingBodies ==
    {SectionsBody(<<lv, CreatorSection, SongSection>>) : lv \in LevelSections}

PageBodies ==
    ListingBodies \cup {ErrorCodeBody, TextBody(<<>>), SectionsBody(<<<<>>, <<>>>>)}

InitPages ==
    /\ client \in {IdleClient, LoggedClient}
    /\ requests = <<>>
    /\ \E strategy \in {"REGULAR", "BY_USER", "FRIENDS"} : \E user \in {NoUser} :
         calls = <<[op |-> "search_levels", strategy |-> strategy, user |-> user,
                    outOfOrder |-> FALSE]>>
    /\ last = 0
    /\ applied = <<ClientCredentials(client)>>
    /\ \E n \in 0..MaxTasks : tasks = [i \in 1..n |-> Task("created", None, i - 1, None)]
    /\ outer = IF tasks = <<>>
               THEN [st |-> "result", res |-> <<>>, exc |-> "none"]
               ELSE [st |-> "pending", res |-> <<>>, exc |-> "none"]
    /\ rm = [st |-> "waiting", res |-> <<>>, exc |-> "none"]

\* the task of page i runs from its start to its await of http.request
PageStart ==
    \E i \in 1..Len(tasks) :
        /\ tasks[i].st = "created"
        /\ \A j \in 1..(i - 1) : tasks[j].st # "created"
        /\ LET p == SearchParams(tasks[i].page, <<"q">>, calls[1].strategy, calls[1].user,
                                 None, client)
           IN  IF p.k = "raise"
               THEN /\ tasks' = [tasks EXCEPT ![i].st = "failed"]
                    /\ GatherChildRaised(i, p.exc)
                    /\ UNCHANGED requests
               ELSE /\ tasks' = [tasks EXCEPT ![i].st = "awaiting"]
                    /\ requests' = Append(requests, Request("LEVEL_SEARCH", p.val))
                    /\ UNCHANGED outer
        /\ UNCHANGED <<client, calls, last, applied, rm>>

\* the reply to page i arrives and its task runs to its end
PageReply ==
    \E i \in 1..Len(tasks) : \E body \in PageBodies :
        /\ tasks[i].st = "awaiting"
        /\ \A j \in 1..Len(tasks) : tasks[j].st # "created"
        /\ LET r == SearchParse(HttpRequest(body, SearchCodes, FALSE))
           IN  IF r.k = "raise"
               THEN /\ tasks' = [tasks EXCEPT ![i].st = "failed", ![i].body = body]
                    /\ GatherChildRaised(i, r.exc)
               ELSE /\ tasks' = [tasks EXCEPT ![i].st = "done", ![i].body = body,
                                              ![i].res = r.val]
                    /\ GatherChildReturned(i, r.val)
        /\ calls' = [calls EXCEPT ![1].outOfOrder = @ \/ \E j \in 1..(i - 1) : Unfinished(j)]
        /\ UNCHANGED <<client, requests, last, applied, rm>>

NextPages == PageStart \/ PageReply \/ RunManyResume

SpecPages == InitPages /\ [][NextPages]_vars

\* the level ids a reply lists, in the reply's order; an error code lists none
LevelIds(body) ==
    IF body.k = "text" /\ Len(body.items) >= 3
    THEN [j \in 1..Len(body.items[1]) |-> body.items[1][j].id]
    ELSE <<>>

RECURSIVE IdsOfPages(_)
IdsOfPages(ts) ==
    IF ts = <<>> THEN <<>> ELSE LevelIds(Head(ts).body) \o IdsOfPages(Tail(ts))

ResultIds == [j \in 1..Len(rm.res) |-> rm.res[j].id]

(***************************************************************************)
(* C2: in a multi-page operation, if the server answers one page with an   *)
(* error code (the bare integer -1) while the other pages receive data,    *)
(* the operation does not raise: the failing page contributes nothing and  *)
(* the result is the concatenation of the other pages' items.              *)
(***************************************************************************)
C2_ErrorCodePageContributesNothing ==
    ( /\ rm.st # "waiting"
      /\ \A i \in 1..Len(tasks) : ~Unfinished(i)
      /\ \E i \in 1..Len(tasks) : tasks[i].body = ErrorCodeBody
      /\ \E i \in 1..Len(tasks) : tasks[i].body \in ListingBodies
      /\ \A i \in 1..Len(tasks) : tasks[i].body \in ListingBodies \cup {ErrorCodeBody} )
    => /\ rm.st = "returned"
       /\ ResultIds = IdsOfPages(tasks)

(***************************************************************************)
(* C3: for a fan-out over pages p1..pn the combined result lists the items *)
(* of p1 first, then p2, and so on in the order the pages were submitted,  *)
(* for every order in which the page requests complete.                    *)
(***************************************************************************)
C3_ResultInSubmissionOrder ==
    rm.st = "returned" => ResultIds = IdsOfPages(tasks)

C3_Witness ==
    /\ rm.st = "returned"
    /\ calls[1].outOfOrder
    /\ Len(tasks) >= 2
    /\ LevelIds(tasks[1].body) = <<1>>
    /\ LevelIds(tasks[2].body) = <<2, 1>>
    /\ ResultIds = <<1, 2, 1>>

(***************************************************************************)
(* The Route table: the names class Route defines. Route.NAME for any      *)
(* other name raises AttributeError where the operation evaluates it.      *)
(***************************************************************************)
RouteNames ==
    { "GET_USER_INFO", "USER_SEARCH", "DOWNLOAD_LEVEL", "LEVEL_SEARCH", "GET_SONG_INFO",
      "GET_FRIENDS", "GET_COMMENTS", "GET_PRIVATE_MESSAGES", "READ_PRIVATE_MESSAGE",
      "SEND_PRIVATE_MESSAGE", "DELETE_PRIVATE_MESSAGE", "GET_TIMELY", "LOGIN", "CAPTCHA",
      "MANAGE_ACCOUNT", "CHANGE_PASSWORD", "CHANGE_USERNAME", "DELETE_ACC_COMMENT",
      "DELETE_LEVEL_COMMENT", "UPLOAD_COMMENT", "UPLOAD_ACC_COMMENT", "UPDATE_ACC_SETTINGS",
      "GET_FRIEND_REQUESTS", "DELETE_REQUEST", "ACCEPT_REQUEST", "REQUEST_MODERATOR",
      "GET_COMMENT_HISTORY" }

HasRoute(name) == name \in RouteNames

(***************************************************************************)
(* Session operations called directly. A call is idle, then suspended at   *)
(* an await (its pc names the await), then done with its outcome. The      *)
(* reply the server will give is drawn when the call starts and is seen by *)
(* the call only when it resumes.                                          *)
(***************************************************************************)
Call(op, pc, args, body, mem, out) ==
    [op |-> op, pc |-> pc, args |-> args, body |-> body, mem |-> mem, out |-> out]

IdleCall == Call("none", "idle", <<>>, None, <<>>, Return(None))

\* the call reaches its await of http.request: op, arguments, locals
Suspend(s, op, args, body, mem) ==
    calls' = [calls EXCEPT ![s] = Call(op, "awaiting", args, body, mem, Return(None))]

Finish(s, out) ==
    /\ calls' = [calls EXCEPT ![s].pc = "done", ![s].out = out]
    /\ last' = s

\* the call ends before its first await: op, arguments, locals and outcome
FinishAtOnce(s, op, args, body, mem, out) ==
    /\ calls' = [calls EXCEPT ![s] = Call(op, "done", args, body, mem, out)]
    /\ last' = s

Send(route, params) == requests' = Append(requests, Request(route, params))

GatherIdle ==
    /\ tasks = <<>>
    /\ outer = [st |-> "result", res |-> <<>>, exc |-> "none"]
    /\ rm = [st |-> "returned", res |-> <<>>, exc |-> "none"]

\* client._upd(attr, value): sets one named field of the Client
Upd(c, attr, value) == [c EXCEPT ![attr] = value]

(***************************************************************************)
(* login                                                                   *)
(***************************************************************************)
LoginCodes == [n \in {-1} |-> "LoginFailure"]

\* account_id, id, *junk = resp.split(','); int(account_id); int(id)
LoginParseLastFields(resp) ==
    IF resp.k = "int" THEN Raise("AttributeError")
    ELSE LET parts == Split(resp.chars, ",")
         IN  IF Len(parts) < 2 THEN Raise("ValueError")
             ELSE IF ~IsIntText(parts[Len(parts) - 1]) \/ ~IsIntText(parts[Len(parts)])
                  THEN Raise("ValueError")
             ELSE Return(<<ParseInt(parts[Len(parts) - 1]), ParseInt(parts[Len(parts)])>>)

LoginParse(resp) ==
    IF resp.k = "int" THEN Raise("AttributeError")
    ELSE LET parts == Split(resp.chars, ",")
         IN  IF Len(parts) < 2 THEN Raise("ValueError")
             ELSE IF ~IsIntText(parts[1]) \/ ~IsIntText(parts[2]) THEN Raise("ValueError")
             ELSE Return(<<ParseInt(parts[1]), ParseInt(parts[2])>>)

\* for attr, value in prepared.items(): client._upd(attr, value)
LoginApplyNameAndPasswordOnly(c, user, password, account_id, id) ==
    Upd(Upd(c, "name", user), "password", password)

LoginApply(c, user, password, account_id, id) ==
    Upd(Upd(Upd(Upd(c, "name", user), "password", password),
            "account_id", account_id), "id", id)

LoginStart(s, user, password, body) ==
    /\ calls[s].pc = "idle"
    /\ IF HasRoute("LOGIN")
       THEN /\ Send("LOGIN", Put(Put(<<>>, "userName", StrV(<<user>>)),
                                 "password", StrV(<<password>>)))
            /\ Suspend(s, "login", [user |-> user, password |-> password], body, <<>>)
            /\ UNCHANGED last
       ELSE /\ FinishAtOnce(s, "login", [user |-> user, password |-> password], body,
                            <<>>, Raise("AttributeError"))
            /\ UNCHANGED requests
    /\ UNCHANGED <<client, applied>>
    /\ UNCHANGED gatherVars

\* the same, setting each field as soon as its value is known
LoginReplyApplyingAsParsed(s) ==
    /\ calls[s].op = "login" /\ calls[s].pc = "awaiting"
    /\ LET http == HttpRequest(calls[s].body, LoginCodes, TRUE)
           parsed == LoginParse(http.resp)
           a == calls[s].args
       IN  IF http.k = "raise"
           THEN Finish(s, Raise(http.exc)) /\ UNCHANGED <<client, applied>>
           ELSE IF parsed.k = "raise"
           THEN /\ client' = Upd(Upd(client, "name", a.user), "password", a.password)
                /\ Finish(s, Raise(parsed.exc))
                /\ UNCHANGED applied
           ELSE /\ client' = LoginApply(client, a.user, a.password, parsed.val[1], parsed.val[2])
                /\ applied' = Append(applied, <<a.user, a.password, parsed.val[1], parsed.val[2]>>)
                /\ Finish(s, Return(None))
    /\ UNCHANGED requests
    /\ UNCHANGED gatherVars

LoginReply(s) ==
    /\ calls[s].op = "login" /\ calls[s].pc = "awaiting"
    /\ LET http == HttpRequest(calls[s].body, LoginCodes, TRUE)
           parsed == LoginParse(http.resp)
           a == calls[s].args
       IN  IF http.k = "raise"
           THEN Finish(s, Raise(http.exc)) /\ UNCHANGED <<client, applied>>
           ELSE IF parsed.k = "raise"
           THEN Finish(s, Raise(parsed.exc)) /\ UNCHANGED <<client, applied>>
           ELSE /\ client' = LoginApply(client, a.user, a.password, parsed.val[1], parsed.val[2])
                /\ applied' = Append(applied, <<a.user, a.password, parsed.val[1], parsed.val[2]>>)
                /\ Finish(s, Return(None))
    /\ UNCHANGED requests
    /\ UNCHANGED gatherVars

(***************************************************************************)
(* search_levels_on_page called directly                                   *)
(***************************************************************************)
SearchStart(s, page, query, strategy, user, gauntlet, raise_errors, body) ==
    LET args == [page |-> page, query |-> query, strategy |-> strategy, user |-> user,
                 gauntlet |-> gauntlet, raise_errors |-> raise_errors]
        p == SearchParams(page, query, strategy, user, gauntlet, client)
    IN  /\ calls[s].pc = "idle"
        /\ IF p.k = "raise"
           THEN /\ FinishAtOnce(s, "search_levels_on_page", args, body, <<>>, Raise(p.exc))
                /\ UNCHANGED requests
           ELSE IF HasRoute("LEVEL_SEARCH")
           THEN /\ Send("LEVEL_SEARCH", p.val)
                /\ Suspend(s, "search_levels_on_page", args, body, <<>>)
                /\ UNCHANGED last
           ELSE /\ FinishAtOnce(s, "search_levels_on_page", args, body, <<>>,
                                Raise("AttributeError"))
                /\ UNCHANGED requests
        /\ UNCHANGED <<client, applied>>
        /\ UNCHANGED gatherVars

\* the same, leaving the Client logged out
SearchReplyLoggingOut(s) ==
    /\ calls[s].op = "search_levels_on_page" /\ calls[s].pc = "awaiting"
    /\ Finish(s, SearchParse(HttpRequest(calls[s].body, SearchCodes,
                                         calls[s].args.raise_errors)))
    /\ client' = IdleClient
    /\ UNCHANGED <<requests, applied>>
    /\ UNCHANGED gatherVars

SearchReply(s) ==
    /\ calls[s].op = "search_levels_on_page" /\ calls[s].pc = "awaiting"
    /\ Finish(s, SearchParse(HttpRequest(calls[s].body, SearchCodes,
                                         calls[s].args.raise_errors)))
    /\ UNCHANGED <<client, requests, applied>>
    /\ UNCHANGED gatherVars

(***************************************************************************)
(* rate_demon                                                              *)
(***************************************************************************)
RateDemonCodes == [n \in {-2} |-> "MissingAccess"]

RateDemonParams(level_id, rating, mod, c) ==
    Put(Put(Put(Put(Put(<<>>, "accountid", IntV(c.account_id)), "gjp", EncodedPass(c)),
                "levelid", IntV(level_id)), "rating", IntV(rating)),
        "mode", IntV(IF mod THEN 1 ELSE 0))

\* from the reply on: False, True, or the None of falling off the end
RateDemonResult(http) ==
    IF http.k = "raise" THEN Raise(http.exc)
    ELSE IF ~Truthy(http.resp) THEN Return(BoolV(FALSE))
    ELSE IF http.resp.k = "int" /\ http.resp.n > 0 THEN Return(BoolV(TRUE))
    ELSE Return(None)

\* Route.RATE_LEVEL_DEMON is evaluated as an argument of the request
RateDemonStart(s, level_id, rating, mod, body) ==
    LET args == [level_id |-> level_id, rating |-> rating, mod |-> mod]
        parameters == RateDemonParams(level_id, rating, mod, client)
    IN  /\ calls[s].pc = "idle"
        /\ IF HasRoute("RATE_LEVEL_DEMON")
           THEN /\ Send("RATE_LEVEL_DEMON", parameters)
                /\ Suspend(s, "rate_demon", args, body, [parameters |-> parameters])
                /\ UNCHANGED last
           ELSE /\ FinishAtOnce(s, "rate_demon", args, body, [parameters |-> parameters],
                                Raise("AttributeError"))
                /\ UNCHANGED requests
        /\ UNCHANGED <<client, applied>>
        /\ UNCHANGED gatherVars

\* the call resumes with the reply; no call reaches this while the route is missing
RateDemonReply(s) ==
    /\ calls[s].op = "rate_demon" /\ calls[s].pc = "awaiting"
    /\ Finish(s, RateDemonResult(HttpRequest(calls[s].body, RateDemonCodes, TRUE)))
    /\ UNCHANGED <<client, requests, applied>>
    /\ UNCHANGED gatherVars

(***************************************************************************)
(* upload_level, up to its await of http.request. A password is None, an   *)
(* int or a str.                                                           *)
(***************************************************************************)
add == 1000000

\* str(password)
PyStr(v) ==
    CASE v.k = "none" -> <<"N", "o", "n", "e">>
      [] v.k = "int" -> IntToText(v.n)
      [] v.k = "str" -> v.chars

\* int(password)
PyInt(v) == IF v.k = "int" THEN v.n ELSE ParseInt(v.chars)

\* the same without the comparison with add
UploadPasswordUnbounded(copyable, password) ==
    LET check == PyStr(password)
    IN  IF IsDigit(check) THEN add + PyInt(password)
        ELSE IF copyable /\ password.k = "none" THEN 1 ELSE 0

\* pwd, the 'password' of the payload
UploadPassword(copyable, password) ==
    LET check == PyStr(password)
    IN  IF IsDigit(check) /\ ParseInt(check) < add THEN add + PyInt(password)
        ELSE IF copyable /\ password.k = "none" THEN 1 ELSE 0

UploadParams(level_id, pwd, c) ==
    Put(Put(Put(Put(Put(<<>>, "accountid", IntV(c.account_id)), "levelid", IntV(level_id)),
                "gjp", EncodedPass(c)), "userName", StrV(<<c.name>>)),
        "password", StrV(IntToText(pwd)))

\* Route.UPLOAD_LEVEL is evaluated as an argument of the request, after the
\* parameters and the payload are built; what follows the await is not modelled
\* further than the suspension
UploadLevelStart(s, level_id, password, copyable, load_after, body) ==
    LET args == [level_id |-> level_id, password |-> password, copyable |-> copyable,
                 load_after |-> load_after]
        pwd == UploadPassword(copyable, password)
        mem == [parameters |-> UploadParams(level_id, pwd, client), password |-> pwd]
    IN  /\ calls[s].pc = "idle"
        /\ IF HasRoute("UPLOAD_LEVEL")
           THEN /\ Send("UPLOAD_LEVEL", mem.parameters)
                /\ Suspend(s, "upload_level", args, body, mem)
                /\ UNCHANGED last
           ELSE /\ FinishAtOnce(s, "upload_level", args, body, mem, Raise("AttributeError"))
                /\ UNCHANGED requests
        /\ UNCHANGED <<client, applied>>
        /\ UNCHANGED gatherVars

(***************************************************************************)
(* load_save: its first statement is link = Route.GD_URL, before the       *)
(* parameters are built and before the try block.                          *)
(***************************************************************************)
\* the same, had the Client been given a save_api before the route is read
LoadSaveStartStoringFirst(s, body) ==
    /\ calls[s].pc = "idle"
    /\ client' = Upd(client, "save_api", "save_api")
    /\ IF HasRoute("GD_URL") /\ HasRoute("LOAD_DATA")
       THEN /\ Send("LOAD_DATA", Put(Put(<<>>, "userName", StrV(<<client.name>>)),
                                     "password", StrV(<<client.password>>)))
            /\ Suspend(s, "load_save", <<>>, body, <<>>)
            /\ UNCHANGED last
       ELSE /\ FinishAtOnce(s, "load_save", <<>>, body, <<>>, Raise("AttributeError"))
            /\ UNCHANGED requests
    /\ UNCHANGED applied
    /\ UNCHANGED gatherVars

LoadSaveStart(s, body) ==
    /\ calls[s].pc = "idle"
    /\ IF HasRoute("GD_URL") /\ HasRoute("LOAD_DATA")
       THEN /\ Send("LOAD_DATA", Put(Put(<<>>, "userName", StrV(<<client.name>>)),
                                     "password", StrV(<<client.password>>)))
            /\ Suspend(s, "load_save", <<>>, body, <<>>)
            /\ UNCHANGED last
       ELSE /\ FinishAtOnce(s, "load_save", <<>>, body, <<>>, Raise("AttributeError"))
            /\ UNCHANGED requests
    /\ UNCHANGED <<client, applied>>
    /\ UNCHANGED gatherVars

(***************************************************************************)
(* get_level: the download request, then, once its reply is parsed, the    *)
(* search request keyed by the id the download reply carries. A download   *)
(* reply is a level record in its first section, or an error code.         *)
(*   mem: level_id, timetuple as given; real_id and data from the download *)
(*   reply; download, the reply to the download request                    *)
(***************************************************************************)
SuspendAt(s, pc, op, args, body, mem) ==
    calls' = [calls EXCEPT ![s] = Call(op, pc, args, body, mem, Return(None))]

GetLevelCodes == [n \in {-1} |-> "MissingAccess"]

DownloadBody(data) == SectionsBody(<<<<data>>>>)

\* Parser().split('#').take(0).split(':').add_ext(ext).should_map().parse(resp)
LevelDataParse(resp, ext) ==
    [id |-> resp.items[1][1].id, song_id |-> resp.items[1][1].song_id,
     audio_track |-> resp.items[1][1].audio_track,
     creator_id |-> resp.items[1][1].creator_id, ext |-> ext]

GetLevelMem(level_id, timetuple, real_id, data, download) ==
    [level_id |-> level_id, timetuple |-> timetuple, real_id |-> real_id, data |-> data,
     download |-> download]

NoLevelData == [id |-> 0, song_id |-> 0, audio_track |-> 0, creator_id |-> 0, ext |-> <<>>]

\* from the call of get_level to its first await
GetLevelEnter(s, op, args, level_id, timetuple, body) ==
    LET mem == GetLevelMem(level_id, timetuple, 0, NoLevelData, body)
    IN  IF level_id < -2
        THEN /\ FinishAtOnce(s, op, args, body, mem, Raise("AssertionError"))
             /\ UNCHANGED requests
        ELSE IF HasRoute("DOWNLOAD_LEVEL")
        THEN /\ Send("DOWNLOAD_LEVEL", Put(<<>>, "levelid", IntV(level_id)))
             /\ SuspendAt(s, "download", op, args, body, mem)
             /\ UNCHANGED last
        ELSE /\ FinishAtOnce(s, op, args, body, mem, Raise("AttributeError"))
             /\ UNCHANGED requests

GetLevelStart(s, level_id, timetuple, body) ==
    /\ calls[s].pc = "idle"
    /\ GetLevelEnter(s, "get_level", [level_id |-> level_id, timetuple |-> timetuple],
                     level_id, timetuple, body)
    /\ UNCHANGED <<client, applied>>
    /\ UNCHANGED gatherVars

\* the same, searching by the id that was asked for
GetLevelDownloadedSearchesRequestedId(s, body) ==
    /\ calls[s].pc = "download"
    /\ LET http == HttpRequest(calls[s].body, GetLevelCodes, TRUE)
           m == calls[s].mem
       IN  IF http.k = "raise"
           THEN Finish(s, Raise(http.exc)) /\ UNCHANGED requests
           ELSE LET data == LevelDataParse(http.resp, m.timetuple)
                IN  /\ Send("LEVEL_SEARCH", Put(<<>>, "search", IntV(m.level_id)))
                    /\ calls' = [calls EXCEPT ![s].pc = "search", ![s].body = body,
                                   ![s].mem = GetLevelMem(m.level_id, m.timetuple,
                                                          data.id, data, m.download)]
                    /\ UNCHANGED last
    /\ UNCHANGED <<client, applied>>
    /\ UNCHANGED gatherVars

\* the download reply arrives; body is the reply the search will get
GetLevelDownloaded(s, body) ==
    /\ calls[s].pc = "download"
    /\ LET http == HttpRequest(calls[s].body, GetLevelCodes, TRUE)
           m == calls[s].mem
       IN  IF http.k = "raise"
           THEN Finish(s, Raise(http.exc)) /\ UNCHANGED requests
           ELSE LET data == LevelDataParse(http.resp, m.timetuple)
                IN  IF HasRoute("LEVEL_SEARCH")
                    THEN /\ Send("LEVEL_SEARCH", Put(<<>>, "search", IntV(data.id)))
                         /\ calls' = [calls EXCEPT ![s].pc = "search", ![s].body = body,
                                        ![s].mem = GetLevelMem(m.level_id, m.timetuple,
                                                               data.id, data, m.download)]
                         /\ UNCHANGED last
                    ELSE Finish(s, Raise("AttributeError")) /\ UNCHANGED requests
    /\ UNCHANGED <<client, applied>>
    /\ UNCHANGED gatherVars

\* resp.split('#'); song from resp[2], creator from resp[1]
GetLevelResult(http, data) ==
    IF http.k = "raise" THEN Raise(http.exc)
    ELSE IF http.resp.k = "int" THEN Raise("AttributeError")
    ELSE IF http.resp.k = "str" \/ Len(http.resp.items) < 3 THEN Raise("IndexError")
    ELSE LET song_data == http.resp.items[3]
             creator_data == http.resp.items[2]
             song == IF song_data = <<>>
                     THEN [id |-> data.audio_track, kind |-> "official"]
                     ELSE [id |-> song_data[1].id, kind |-> "custom"]
         IN  IF Len(creator_data) > 1 THEN Raise("ValueError")
             ELSE Return([id |-> data.id, song |-> song,
                          creator |-> IF creator_data = <<>>
                                      THEN [id |-> 0, name |-> "unknown", account_id |-> 0]
                                      ELSE creator_data[1],
                          ext |-> data.ext])

GetLevelSearched(s) ==
    /\ calls[s].pc = "search"
    /\ Finish(s, GetLevelResult(HttpRequest(calls[s].body, GetLevelCodes, TRUE),
                                calls[s].mem.data))
    /\ UNCHANGED <<client, requests, applied>>
    /\ UNCHANGED gatherVars

(***************************************************************************)
(* get_timely: the reply is read as integers cut at '|'; then get_level    *)
(* is awaited within the same call.                                        *)
(***************************************************************************)
TimelyCodes == [n \in {-1} |-> "MissingAccess"]

TimelyTypes == <<"daily", "weekly">>

\* ('daily', 'weekly').index(type)
TimelyIndex(type) == (CHOOSE i \in 1..Len(TimelyTypes) : TimelyTypes[i] = type) - 1

\* the same without the modulo
TimelyParseWholeNumber(resp) ==
    IF resp.k = "int" THEN Raise("AttributeError")
    ELSE LET parts == Split(resp.chars, "|")
         IN  IF \E i \in 1..Len(parts) : ~IsIntText(parts[i]) THEN Raise("ValueError")
             ELSE IF Len(parts) < 2 THEN Raise("ValueError")
             ELSE Return(<<ParseInt(parts[1]), ParseInt(parts[2])>>)

\* num, cooldown, *_ = map(int, resp.split('|')); num %= 100000
\* unpacking with a starred target runs the map to its end: int() meets every piece
TimelyParse(resp) ==
    IF resp.k = "int" THEN Raise("AttributeError")
    ELSE LET parts == Split(resp.chars, "|")
         IN  IF \E i \in 1..Len(parts) : ~IsIntText(parts[i]) THEN Raise("ValueError")
             ELSE IF Len(parts) < 2 THEN Raise("ValueError")
             ELSE Return(<<ParseInt(parts[1]) % 100000, ParseInt(parts[2])>>)

TimelyStart(s, type, body) ==
    /\ calls[s].pc = "idle"
    /\ IF \A i \in 1..Len(TimelyTypes) : TimelyTypes[i] # type
       THEN /\ FinishAtOnce(s, "get_timely", [type |-> type, reply |-> body], body,
                            GetLevelMem(0, <<>>, 0, NoLevelData, None), Raise("ValueError"))
            /\ UNCHANGED requests
       ELSE IF HasRoute("GET_TIMELY")
       THEN /\ Send("GET_TIMELY", Put(<<>>, "weekly", IntV(TimelyIndex(type))))
            /\ Suspend(s, "get_timely", [type |-> type, reply |-> body], body,
                       GetLevelMem(0, <<>>, 0, NoLevelData, None))
            /\ UNCHANGED last
       ELSE /\ FinishAtOnce(s, "get_timely", [type |-> type, reply |-> body], body,
                            GetLevelMem(0, <<>>, 0, NoLevelData, None), Raise("AttributeError"))
            /\ UNCHANGED requests
    /\ UNCHANGED <<client, applied>>
    /\ UNCHANGED gatherVars

\* the same without the check of an empty reply
TimelyReplyWithoutEmptyCheck(s, body) ==
    /\ calls[s].op = "get_timely" /\ calls[s].pc = "awaiting"
    /\ LET http == HttpRequest(calls[s].body, TimelyCodes, TRUE)
           parsed == TimelyParse(http.resp)
           w == TimelyIndex(calls[s].args.type) + 1
       IN  IF http.k = "raise"
           THEN Finish(s, Raise(http.exc)) /\ UNCHANGED requests
           ELSE IF parsed.k = "raise"
           THEN Finish(s, Raise(parsed.exc)) /\ UNCHANGED requests
           ELSE GetLevelEnter(s, "get_timely", calls[s].args, 0 - w,
                              <<w, parsed.val[1], parsed.val[2]>>, body)
    /\ UNCHANGED <<client, applied>>
    /\ UNCHANGED gatherVars

\* the reply arrives; body is the reply the download of get_level will get
TimelyReply(s, body) ==
    /\ calls[s].op = "get_timely" /\ calls[s].pc = "awaiting"
    /\ LET http == HttpRequest(calls[s].body, TimelyCodes, TRUE)
           parsed == TimelyParse(http.resp)
           w == TimelyIndex(calls[s].args.type) + 1
       IN  IF http.k = "raise"
           THEN Finish(s, Raise(http.exc)) /\ UNCHANGED requests
           ELSE IF ~Truthy(http.resp)
           THEN Finish(s, Raise("MissingAccess")) /\ UNCHANGED requests
           ELSE IF parsed.k = "raise"
           THEN Finish(s, Raise(parsed.exc)) /\ UNCHANGED requests
           ELSE GetLevelEnter(s, "get_timely", calls[s].args, 0 - w,
                              <<w, parsed.val[1], parsed.val[2]>>, body)
    /\ UNCHANGED <<client, applied>>
    /\ UNCHANGED gatherVars

(***************************************************************************)
(* Operations with one request: from the call to the await, and from the   *)
(* reply to the end. mem holds the parameters built and the object the     *)
(* operation was given, as the operation leaves it.                        *)
(***************************************************************************)
StartRequest(s, op, route, args, mem, body) ==
    /\ calls[s].pc = "idle"
    /\ IF HasRoute(route)
       THEN /\ Send(route, mem.parameters)
            /\ Suspend(s, op, args, body, mem)
            /\ UNCHANGED last
       ELSE /\ FinishAtOnce(s, op, args, body, mem, Raise("AttributeError"))
            /\ UNCHANGED requests
    /\ UNCHANGED <<client, applied>>
    /\ UNCHANGED gatherVars

EndRequest(s, op, out, object) ==
    /\ calls[s].op = op /\ calls[s].pc = "awaiting"
    /\ calls' = [calls EXCEPT ![s].pc = "done", ![s].out = out, ![s].mem.object = object]
    /\ last' = s
    /\ UNCHANGED <<client, requests, applied>>
    /\ UNCHANGED gatherVars

NoCodes == [n \in {} |-> "none"]
MinusOneCodes == [n \in {-1} |-> "MissingAccess"]

\* if resp != 1: raise MissingAccess(...)
ExpectOne(http) ==
    IF http.k = "raise" THEN Raise(http.exc)
    ELSE IF http.resp # IntV(1) THEN Raise("MissingAccess")
    ELSE Return(None)

\* the reply is awaited and not looked at
ExpectNothing(http) ==
    IF http.k = "raise" THEN Raise(http.exc) ELSE Return(None)

WithAuth(params, c) ==
    Put(Put(params, "accountid", IntV(c.account_id)), "gjp", EncodedPass(c))

\* the objects operations are given
LevelObject(id, description, is_alive) ==
    [kind |-> "level", id |-> id, description |-> description, is_alive |-> is_alive]
CommentObject(id, type, level_id) ==
    [kind |-> "comment", id |-> id, type |-> type, level_id |-> level_id]
FriendRequestObject(id, type, author, is_read) ==
    [kind |-> "friend_request", id |-> id, type |-> type, author |-> author,
     is_read |-> is_read]
NoObject == [kind |-> "none", id |-> 0]

Built(parameters, object) == [parameters |-> parameters, object |-> object]

(***************************************************************************)
(* report_level, delete_level, update_level_desc                           *)
(***************************************************************************)
ReportLevelStart(s, level, body) ==
    StartRequest(s, "report_level", "REPORT_LEVEL", [level |-> level],
                 Built(Put(<<>>, "levelid", IntV(level.id)), level), body)

ReportLevelReply(s) ==
    EndRequest(s, "report_level",
               ExpectNothing(HttpRequest(calls[s].body, MinusOneCodes, TRUE)),
               calls[s].mem.object)

DeleteLevelStart(s, level, body) ==
    StartRequest(s, "delete_level", "DELETE_LEVEL", [level |-> level],
                 Built(Put(WithAuth(<<>>, client), "levelid", IntV(level.id)), level), body)

\* on success level.is_alive becomes a coroutine that returns False
DeleteLevelReply(s) ==
    LET out == ExpectOne(HttpRequest(calls[s].body, NoCodes, TRUE))
    IN  EndRequest(s, "delete_level", out,
                   IF out.k = "return" THEN [calls[s].mem.object EXCEPT !.is_alive = "false"]
                   ELSE calls[s].mem.object)

UpdateLevelDescStart(s, level, content, body) ==
    StartRequest(s, "update_level_desc", "UPDATE_LEVEL_DESC",
                 [level |-> level, content |-> content],
                 Built(Put(Put(WithAuth(<<>>, client), "levelid", IntV(level.id)),
                           "leveldesc", StrV(content)), level), body)

UpdateLevelDescReply(s) ==
    LET out == ExpectOne(HttpRequest(calls[s].body, NoCodes, TRUE))
    IN  EndRequest(s, "update_level_desc", out,
                   IF out.k = "return"
                   THEN [calls[s].mem.object EXCEPT !.description = calls[s].args.content]
                   ELSE calls[s].mem.object)

(***************************************************************************)
(* post_comment, comment_level, delete_comment                             *)
(***************************************************************************)
PostCommentStart(s, content, body) ==
    StartRequest(s, "post_comment", "UPLOAD_ACC_COMMENT", [content |-> content],
                 Built(Put(Put(WithAuth(<<>>, client), "userName", StrV(<<client.name>>)),
                           "comment", StrV(content)), NoObject), body)

PostCommentReply(s) ==
    EndRequest(s, "post_comment",
               ExpectNothing(HttpRequest(calls[s].body, MinusOneCodes, TRUE)),
               calls[s].mem.object)

\* the same without the check of the percentage
CommentLevelStartUnchecked(s, level, content, percentage, body) ==
    StartRequest(s, "comment_level", "UPLOAD_COMMENT",
                 [level |-> level, content |-> content, percentage |-> percentage],
                 Built(Put(Put(Put(Put(WithAuth(<<>>, client),
                                       "userName", StrV(<<client.name>>)),
                                   "comment", StrV(content)),
                               "levelid", IntV(level.id)),
                           "percent", IntV(percentage)), level), body)

CommentLevelStart(s, level, content, percentage, body) ==
    IF percentage > 100
    THEN /\ calls[s].pc = "idle"
         /\ FinishAtOnce(s, "comment_level",
                         [level |-> level, content |-> content, percentage |-> percentage],
                         body, Built(<<>>, level), Raise("AssertionError"))
         /\ UNCHANGED <<client, requests, applied>>
         /\ UNCHANGED gatherVars
    ELSE StartRequest(s, "comment_level", "UPLOAD_COMMENT",
                      [level |-> level, content |-> content, percentage |-> percentage],
                      Built(Put(Put(Put(Put(WithAuth(<<>>, client),
                                            "userName", StrV(<<client.name>>)),
                                        "comment", StrV(content)),
                                    "levelid", IntV(level.id)),
                                "percent", IntV(percentage)), level), body)

CommentLevelReply(s) ==
    EndRequest(s, "comment_level",
               ExpectNothing(HttpRequest(calls[s].body, MinusOneCodes, TRUE)),
               calls[s].mem.object)

\* route = cases.get(comment.type.value)
DeleteCommentRoute(comment) ==
    IF comment.type = 0 THEN "DELETE_LEVEL_COMMENT" ELSE "DELETE_ACC_COMMENT"

DeleteCommentStart(s, comment, body) ==
    IF ~HasRoute("DELETE_LEVEL_COMMENT") \/ ~HasRoute("DELETE_ACC_COMMENT")
    THEN StartRequest(s, "delete_comment", "none", [comment |-> comment],
                      Built(<<>>, comment), body)
    ELSE StartRequest(s, "delete_comment", DeleteCommentRoute(comment), [comment |-> comment],
                      Built(Put(Put(WithAuth(<<>>, client), "commentid", IntV(comment.id)),
                                "levelid", IntV(comment.level_id)), comment), body)

DeleteCommentReply(s) ==
    EndRequest(s, "delete_comment", ExpectOne(HttpRequest(calls[s].body, NoCodes, TRUE)),
               calls[s].mem.object)

(***************************************************************************)
(* accept_friend_req, read_friend_req. A request's type is 0 (inbox, a     *)
(* received one) or 1 (sent).                                              *)
(***************************************************************************)
\* the same without the check of the direction
AcceptFriendReqStartAnyDirection(s, req, body) ==
    StartRequest(s, "accept_friend_req", "ACCEPT_REQUEST", [req |-> req],
                 Built(Put(Put(WithAuth(<<>>, client), "user", IntV(req.author)),
                           "requestid", IntV(req.id)), req), body)

AcceptFriendReqStart(s, req, body) ==
    IF req.type # 0
    THEN /\ calls[s].pc = "idle"
         /\ FinishAtOnce(s, "accept_friend_req", [req |-> req], body, Built(<<>>, req),
                         Raise("MissingAccess"))
         /\ UNCHANGED <<client, requests, applied>>
         /\ UNCHANGED gatherVars
    ELSE StartRequest(s, "accept_friend_req", "ACCEPT_REQUEST", [req |-> req],
                      Built(Put(Put(WithAuth(<<>>, client), "user", IntV(req.author)),
                                "requestid", IntV(req.id)), req), body)

AcceptFriendReqReply(s) ==
    EndRequest(s, "accept_friend_req", ExpectOne(HttpRequest(calls[s].body, NoCodes, TRUE)),
               calls[s].mem.object)

ReadFriendReqStart(s, req, body) ==
    StartRequest(s, "read_friend_req", "READ_REQUEST", [req |-> req],
                 Built(Put(WithAuth(<<>>, client), "requestid", IntV(req.id)), req), body)

ReadFriendReqReply(s) ==
    LET out == ExpectOne(HttpRequest(calls[s].body, NoCodes, TRUE))
    IN  EndRequest(s, "read_friend_req", out,
                   IF out.k = "return" THEN [calls[s].mem.object EXCEPT !.is_read = TRUE]
                   ELSE calls[s].mem.object)

(***************************************************************************)
(* like: a Level has is_featured, a Comment has is_spam; a comment's type  *)
(* is 0 (level comment) or 1 (profile comment). rs is the random string,   *)
(* chk the checksum of the listed values.                                  *)
(***************************************************************************)
LikeTypeId(item) == IF item.kind = "level" THEN 1 ELSE IF item.type = 0 THEN 2 ELSE 3

LikeSpecial(item) ==
    IF item.kind = "level" THEN 0 ELSE IF item.type = 0 THEN item.level_id ELSE item.id

\* dislike ^ 1
LikeFlag(dislike) == IF dislike THEN 0 ELSE 1

LikeValues(item, dislike, c) ==
    <<LikeSpecial(item), item.id, LikeFlag(dislike), LikeTypeId(item), "rs", c.account_id, 0, 0>>

LikeParams(item, dislike, c) ==
    Put(Put(Put(Put(Put(Put(WithAuth(<<>>, c), "itemid", IntV(item.id)),
                        "like", IntV(LikeFlag(dislike))), "type", IntV(LikeTypeId(item))),
                "special", IntV(LikeSpecial(item))), "rs", StrV(<<"rs">>)),
        "chk", [chk |-> LikeValues(item, dislike, c)])

\* the same, going on with an item that is neither a Level nor a Comment
LikeStartAnyItem(s, item, dislike, body) ==
    StartRequest(s, "like", "LIKE_ITEM", [item |-> item, dislike |-> dislike],
                 Built(Put(<<>>, "itemid", IntV(item.id)), item), body)

LikeStart(s, item, dislike, body) ==
    IF item.kind \notin {"level", "comment"}
    THEN /\ calls[s].pc = "idle"
         /\ FinishAtOnce(s, "like", [item |-> item, dislike |-> dislike], body,
                         Built(<<>>, item), Return(None))
         /\ UNCHANGED <<client, requests, applied>>
         /\ UNCHANGED gatherVars
    ELSE StartRequest(s, "like", "LIKE_ITEM", [item |-> item, dislike |-> dislike],
                      Built(LikeParams(item, dislike, client), item), body)

LikeReply(s) ==
    EndRequest(s, "like", ExpectOne(HttpRequest(calls[s].body, NoCodes, TRUE)),
               calls[s].mem.object)

(***************************************************************************)
(* retrieve_page_comments. The route is chosen before the parameters are   *)
(* built; a comment is kept as its text.                                   *)
(***************************************************************************)
CommentsRoute(type) == IF type = "level" THEN "GET_COMMENT_HISTORY" ELSE "GET_ACC_COMMENTS"

RetrievePageCommentsStart(s, user, type, page, raise_errors, body) ==
    LET args == [user |-> user, type |-> type, page |-> page, raise_errors |-> raise_errors]
    IN  IF page < 0 \/ type \notin {"profile", "level"}
        THEN /\ calls[s].pc = "idle"
             /\ FinishAtOnce(s, "retrieve_page_comments", args, body, Built(<<>>, NoObject),
                             Raise("AssertionError"))
             /\ UNCHANGED <<client, requests, applied>>
             /\ UNCHANGED gatherVars
        ELSE StartRequest(s, "retrieve_page_comments", CommentsRoute(type), args,
                          Built(Put(Put(Put(<<>>, IF type = "level" THEN "userid"
                                                  ELSE "accountid",
                                            IntV(IF type = "level" THEN user.id
                                                 ELSE user.account_id)),
                                        "page", IntV(page)), "total", IntV(0)), NoObject),
                          body)

RetrievePageCommentsResult(http, raise_errors) ==
    IF http.k = "raise" THEN Raise(http.exc)
    ELSE IF ~Truthy(http.resp) THEN Return(ListV(<<>>))
    ELSE IF http.resp.k = "int" THEN Raise("AttributeError")
    ELSE LET first == Split(http.resp.chars, "#")[1]
         IN  IF first = <<>>
             THEN IF raise_errors THEN Raise("NothingFound") ELSE Return(ListV(<<>>))
             ELSE Return(ListV([i \in 1..Len(Split(first, "|")) |->
                                   StrV(Split(first, "|")[i])]))

RetrievePageCommentsReply(s) ==
    EndRequest(s, "retrieve_page_comments",
               RetrievePageCommentsResult(
                   HttpRequest(calls[s].body, MinusOneCodes, calls[s].args.raise_errors),
                   calls[s].args.raise_errors),
               calls[s].mem.object)

LoadSaveCodes == [n \in {-11} |-> "MissingAccess"]

\* the reply arrives: the request is awaited outside the try block, what follows
\* is inside it; built says whether from_string_async and aio_parse both succeed.
\* No call reaches this while the routes are missing.
LoadSaveReply(s, built) ==
    /\ calls[s].op = "load_save" /\ calls[s].pc = "awaiting"
    /\ LET http == HttpRequest(calls[s].body, LoadSaveCodes, TRUE)
       IN  IF http.k = "raise"
           THEN Finish(s, Raise(http.exc)) /\ UNCHANGED client
           ELSE IF http.resp.k = "int" \/ Len(Split(http.resp.chars, ";")) < 2 \/ ~built
           THEN Finish(s, Return(BoolV(FALSE))) /\ UNCHANGED client
           ELSE /\ client' = Upd(Upd(client, "save_api", "save_api"), "save", "save")
                /\ Finish(s, Return(BoolV(TRUE)))
    /\ UNCHANGED <<requests, applied>>
    /\ UNCHANGED gatherVars

(***************************************************************************)
(* get_top. A leaderboard strategy is a name with a value; the wire type   *)
(* is 'top' for value 0 and the lower-cased name otherwise. The login      *)
(* check and the credentials come before Route.GET_USER_TOP is evaluated.  *)
(***************************************************************************)
LeaderboardStrategy(name, value) == [name |-> name, value |-> value]

\* name.lower() of the name of an enumeration member
Lower(name) ==
    CASE name = "PLAYERS" -> "players"
      [] name = "FRIENDS" -> "friends"
      [] name = "RELATIVE" -> "relative"
      [] name = "CREATORS" -> "creators"
      [] name = "NORMAL" -> "normal"
      [] name = "SENT" -> "sent"

\* strategy.name.lower() if strategy.value else 'top'
TopWireType(strategy) == IF strategy.value # 0 THEN Lower(strategy.name) ELSE "top"

TopNeedsLogin(strategy) == strategy.value \in {1, 2}

TopParams(strategy, count, c) ==
    LET params == Put(Put(<<>>, "type", TopWireType(strategy)), "count", IntV(count))
    IN  IF TopNeedsLogin(strategy) THEN WithAuth(params, c) ELSE params

GetTopStart(s, strategy, count, body) ==
    LET args == [strategy |-> strategy, count |-> count]
    IN  IF TopNeedsLogin(strategy) /\ ~IsLogged(client)
        THEN /\ calls[s].pc = "idle"
             /\ FinishAtOnce(s, "get_top", args, body, Built(<<>>, NoObject),
                             Raise("NotLoggedIn"))
             /\ UNCHANGED <<client, requests, applied>>
             /\ UNCHANGED gatherVars
        ELSE StartRequest(s, "get_top", "GET_USER_TOP", args,
                          Built(TopParams(strategy, count, client), NoObject), body)

\* resp.split('|'), the empty pieces dropped; a user's statistics are kept as their text.
\* No call reaches this while the route is missing.
GetTopResult(http) ==
    IF http.k = "raise" THEN Raise(http.exc)
    ELSE IF http.resp.k = "int" THEN Raise("AttributeError")
    ELSE LET pieces == SelectSeq(Split(http.resp.chars, "|"), IsNotEmpty)
         IN  Return(ListV([i \in 1..Len(pieces) |-> StrV(pieces[i])]))

GetTopReply(s) ==
    EndRequest(s, "get_top", GetTopResult(HttpRequest(calls[s].body, MinusOneCodes, TRUE)),
               calls[s].mem.object)

(***************************************************************************)
(* read_message. A Message has an id, a type (NORMAL or SENT) and a cached *)
(* body, None until read. After the await the name resp is bound anew to a *)
(* Parser and the reply is not handed to it; a Parser has no get.          *)
(***************************************************************************)
MessageObject(id, type, body) == [kind |-> "message", id |-> id, type |-> type, body |-> body]

\* Index.MESSAGE_BODY, as the key of a parsed record
MessageBodyKey == <<"5">>

\* Coder.decode(type='message', string=...): the message scheme undone, letter by letter
DecodeLetter(c) ==
    CASE c = "a" -> "h" [] c = "b" -> "i" [] c = "h" -> "a" [] c = "i" -> "b" [] OTHER -> c

MessageDecode(cs) == [i \in 1..Len(cs) |-> DecodeLetter(cs[i])]

\* Parser().with_split(':').should_map()
MessageParser == [kind |-> "parser", split |-> ":", map |-> TRUE]

\* resp.get(key), resp being the Parser
ParserGet(parser, key) == Raise("AttributeError")

ReadMessageStart(s, msg, body) ==
    StartRequest(s, "read_message", "READ_PRIVATE_MESSAGE", [msg |-> msg],
                 Built(Put(Put(WithAuth(<<>>, client), "messageid", IntV(msg.id)),
                           "isSender", Lower(msg.type)), msg), body)

\* from the reply on: the outcome and the body the Message then caches
ReadMessageResult(http) ==
    IF http.k = "raise" THEN Raise(http.exc)
    ELSE LET string == ParserGet(MessageParser, MessageBodyKey)
         IN  IF string.k = "raise" THEN Raise(string.exc)
             ELSE Return(StrV(MessageDecode(string.val.chars)))

ReadMessageReply(s) ==
    LET out == ReadMessageResult(HttpRequest(calls[s].body, MinusOneCodes, TRUE))
    IN  EndRequest(s, "read_message", out,
                   IF out.k = "return" THEN [calls[s].mem.object EXCEPT !.body = out.val]
                   ELSE calls[s].mem.object)

(***************************************************************************)
(* rate_level: the assertion on the rating is its first statement.         *)
(***************************************************************************)
RateLevelStart(s, level, rating, body) ==
    IF ~(0 < rating /\ rating <= 10)
    THEN /\ calls[s].pc = "idle"
         /\ FinishAtOnce(s, "rate_level", [level |-> level, rating |-> rating], body,
                         Built(<<>>, level), Raise("AssertionError"))
         /\ UNCHANGED <<client, requests, applied>>
         /\ UNCHANGED gatherVars
    ELSE StartRequest(s, "rate_level", "RATE_LEVEL_STARS", [level |-> level, rating |-> rating],
                      Built(Put(Put(WithAuth(<<>>, client), "levelid", IntV(level.id)),
                                "stars", IntV(rating)), level), body)

\* no call reaches this while the route is missing
RateLevelReply(s) ==
    EndRequest(s, "rate_level", ExpectOne(HttpRequest(calls[s].body, NoCodes, TRUE)),
               calls[s].mem.object)

(***************************************************************************)
(* get_user_list: the credentials are put without a login check, then      *)
(* Route.GET_USER_LIST is evaluated as an argument of the request.         *)
(***************************************************************************)
GetUserListStart(s, type, body) ==
    StartRequest(s, "get_user_list", "GET_USER_LIST", [type |-> type],
                 Built(Put(WithAuth(<<>>, client), "type", IntV(type)), NoObject), body)

(***************************************************************************)
(* Every name NAME that session.py reads as Route.NAME.                    *)
(***************************************************************************)
RoutesRequested ==
    { "ACCEPT_REQUEST", "BLOCK_USER", "DELETE_ACC_COMMENT", "DELETE_LEVEL",
      "DELETE_LEVEL_COMMENT", "DELETE_PRIVATE_MESSAGE", "DELETE_REQUEST", "DOWNLOAD_LEVEL",
      "GD_URL", "GET_ACC_COMMENTS", "GET_COMMENTS", "GET_COMMENT_HISTORY",
      "GET_FRIEND_REQUESTS", "GET_GAUNTLETS", "GET_LEVEL_SCORES", "GET_MAP_PACKS",
      "GET_PRIVATE_MESSAGES", "GET_SONG_INFO", "GET_TIMELY", "GET_USER_INFO", "GET_USER_LIST",
      "GET_USER_TOP", "LEVEL_SEARCH", "LIKE_ITEM", "LOAD_DATA", "LOGIN",
      "NEWGROUNDS_SONG_LISTEN", "RATE_LEVEL_DEMON", "RATE_LEVEL_STARS",
      "READ_PRIVATE_MESSAGE", "READ_REQUEST", "REMOVE_FRIEND", "REPORT_LEVEL", "SAVE_DATA",
      "SEND_PRIVATE_MESSAGE", "SEND_REQUEST", "SUGGEST_LEVEL_STARS", "UNBLOCK_USER",
      "UPDATE_ACC_SETTINGS", "UPDATE_LEVEL_DESC", "UPDATE_USER_SCORE", "UPLOAD_ACC_COMMENT",
      "UPLOAD_COMMENT", "UPLOAD_LEVEL", "USER_SEARCH" }

(***************************************************************************)
(* One call of one operation, with its arguments and the server's reply    *)
(* drawn from the sets below.                                              *)
(***************************************************************************)
MaxCodeLen == 2
MaxPwdLen == 3
MaxTimelyLen == 4

Credentials == {<<"u1", "p1">>, <<"u2", "p2">>}
LoginAlphabet == {"1", "2", ",", "-"}
LoginBodies == {TextBody(t) : t \in TextsUpTo(LoginAlphabet, MaxReplyLen)}

Strategies == {"REGULAR", "BY_USER", "FRIENDS"}
Queries == {<<>>, <<"q">>}
Users == {NoUser, UserId(7), UserObject(8)}
Gauntlets == {None, IntV(3)}

CodeAlphabet == {"0", "1", "2", "-", "x"}
CodeBodies == {TextBody(t) : t \in TextsUpTo(CodeAlphabet, MaxCodeLen)}

PasswordAlphabet == {"0", "4", "x"}
Passwords ==
    {None}
    \cup {IntV(n) : n \in {-5, 0, 42, 999999, 1000000, 1000001, 2000000}}
    \cup {StrV(t) : t \in TextsUpTo(PasswordAlphabet, MaxPwdLen)}
    \cup {StrV(IntToText(n)) : n \in {999999, 1000000, 1234567}}
    \cup {StrV(<<"0">> \o IntToText(999999)), StrV(<<"-", "4">>)}

LevelIdsAsked == {-3, -2, -1, 1, 2}
Timetuples == {<<0, -1, -1>>}
DownloadBodies == {DownloadBody(LevelOne), DownloadBody(LevelTwo), ErrorCodeBody}

TwoCreators == CreatorSection \o <<[id |-> 6, name |-> "c6", account_id |-> 60]>>

LevelSearchBodies ==
    {SectionsBody(<<<<LevelOne>>, cr, sg>>) :
        cr \in {<<>>, CreatorSection, TwoCreators}, sg \in {<<>>, SongSection}}
    \cup {ErrorCodeBody, TextBody(<<"-", "2">>), TextBody(<<>>), SectionsBody(<<<<>>, <<>>>>)}

TimelyAlphabet == {"5", "|", "x"}
TimelyBodies ==
    {TextBody(t) : t \in TextsUpTo(TimelyAlphabet, MaxTimelyLen)}
    \cup { TextBody(<<"5", "|", "3", "0", "0", "|", "7">>),
           TextBody(<<"1", "0", "0", "0", "0", "5", "|", "3">>),
           TextBody(<<"-", "5", "|", "3">>), TextBody(<<"-", "1">>), TextBody(<<"0">>) }

Levels == {LevelObject(1, <<"d">>, "probe"), LevelObject(2, <<>>, "probe")}
Comments == {CommentObject(4, 0, 1), CommentObject(5, 1, 0)}
FriendRequests ==
    {FriendRequestObject(6, type, 60, is_read) : type \in {0, 1}, is_read \in BOOLEAN}
Items == Levels \cup Comments \cup {[kind |-> "song", id |-> 9]}
Contents == {<<>>, <<"t">>}

CommentAlphabet == {"c", "#", "|", "-", "1"}
CommentBodies == {TextBody(t) : t \in TextsUpTo(CommentAlphabet, MaxCodeLen)}

InitCall ==
    /\ client \in {IdleClient, LoggedClient}
    /\ requests = <<>>
    /\ calls = <<IdleCall>>
    /\ last = 0
    /\ applied = <<ClientCredentials(client)>>
    /\ GatherIdle

CallLogin ==
    /\ calls[1].pc = "idle"
    /\ \E cred \in Credentials : \E body \in LoginBodies : LoginStart(1, cred[1], cred[2], body)

CallLoginReply == LoginReply(1)

\* listings whose song section does not list the song a level names
MissingSongBodies ==
    { SectionsBody(<<<<LevelTwo>>, CreatorSection, <<>>>>),
      SectionsBody(<<<<LevelTwo, LevelOne>>, <<>>, <<[id |-> 8]>>>>) }

CallSearch ==
    /\ calls[1].pc = "idle"
    /\ \E page \in 0..1 : \E query \in Queries : \E strategy \in Strategies :
       \E user \in Users : \E gauntlet \in Gauntlets : \E raise_errors \in BOOLEAN :
       \E body \in PageBodies \cup MissingSongBodies :
           SearchStart(1, page, query, strategy, user, gauntlet, raise_errors, body)

CallSearchReply == SearchReply(1)

CallRateDemon ==
    /\ calls[1].pc = "idle"
    /\ \E rating \in 1..2 : \E mod \in BOOLEAN : \E body \in CodeBodies :
           RateDemonStart(1, 1, rating, mod, body)

CallUploadLevel ==
    /\ calls[1].pc = "idle"
    /\ \E password \in Passwords : \E copyable \in BOOLEAN : \E load_after \in BOOLEAN :
           UploadLevelStart(1, 0, password, copyable, load_after, TextBody(<<"1">>))

CallLoadSave ==
    /\ calls[1].pc = "idle"
    /\ \E body \in CodeBodies : LoadSaveStart(1, body)

CallReportLevel ==
    /\ calls[1].pc = "idle"
    /\ \E level \in Levels : \E body \in CodeBodies : ReportLevelStart(1, level, body)

CallDeleteLevel ==
    /\ calls[1].pc = "idle"
    /\ \E level \in Levels : \E body \in CodeBodies : DeleteLevelStart(1, level, body)

CallUpdateLevelDesc ==
    /\ calls[1].pc = "idle"
    /\ \E level \in Levels : \E content \in Contents : \E body \in CodeBodies :
           UpdateLevelDescStart(1, level, content, body)

CallPostComment ==
    /\ calls[1].pc = "idle"
    /\ \E content \in Contents : \E body \in CodeBodies : PostCommentStart(1, content, body)

CallPostCommentReply == PostCommentReply(1)

CallCommentLevel ==
    /\ calls[1].pc = "idle"
    /\ \E level \in Levels : \E content \in Contents : \E percentage \in {0, 100, 101} :
       \E body \in CodeBodies :
           CommentLevelStart(1, level, content, percentage, body)

CallCommentLevelReply == CommentLevelReply(1)

CallDeleteComment ==
    /\ calls[1].pc = "idle"
    /\ \E comment \in Comments : \E body \in CodeBodies : DeleteCommentStart(1, comment, body)

CallDeleteCommentReply == DeleteCommentReply(1)

CallAcceptFriendReq ==
    /\ calls[1].pc = "idle"
    /\ \E req \in FriendRequests : \E body \in CodeBodies : AcceptFriendReqStart(1, req, body)

CallAcceptFriendReqReply == AcceptFriendReqReply(1)

CallReadFriendReq ==
    /\ calls[1].pc = "idle"
    /\ \E req \in FriendRequests : \E body \in CodeBodies : ReadFriendReqStart(1, req, body)

CallLike ==
    /\ calls[1].pc = "idle"
    /\ \E item \in Items : \E dislike \in BOOLEAN : \E body \in CodeBodies :
           LikeStart(1, item, dislike, body)

CallRetrievePageComments ==
    /\ calls[1].pc = "idle"
    /\ \E type \in {"profile", "level"} : \E page \in {-1, 0} :
       \E raise_errors \in BOOLEAN : \E body \in CommentBodies :
           RetrievePageCommentsStart(1, [k |-> "user", id |-> 8, account_id |-> 80],
                                     type, page, raise_errors, body)

CallRetrievePageCommentsReply == RetrievePageCommentsReply(1)

LeaderboardStrategies ==
    { LeaderboardStrategy("PLAYERS", 0), LeaderboardStrategy("FRIENDS", 1),
      LeaderboardStrategy("RELATIVE", 2), LeaderboardStrategy("CREATORS", 3) }

CallGetTop ==
    /\ calls[1].pc = "idle"
    /\ \E strategy \in LeaderboardStrategies : \E count \in {1, 100} : \E body \in CodeBodies :
           GetTopStart(1, strategy, count, body)

CallGetUserList ==
    /\ calls[1].pc = "idle"
    /\ \E type \in 0..1 : \E body \in CodeBodies : GetUserListStart(1, type, body)

Messages == {MessageObject(3, "NORMAL", None), MessageObject(4, "SENT", StrV(<<"o">>))}

MessageBodies ==
    { TextBody(<<"5", ":", "a", "b">>), TextBody(<<"1", ":", "7", ":", "5", ":", "b">>),
      TextBody(<<"1", ":", "7">>), ErrorCodeBody, TextBody(<<"-", "2">>), TextBody(<<>>) }

CallReadMessage ==
    /\ calls[1].pc = "idle"
    /\ \E msg \in Messages : \E body \in MessageBodies : ReadMessageStart(1, msg, body)

CallReadMessageReply == ReadMessageReply(1)

CallRateLevel ==
    /\ calls[1].pc = "idle"
    /\ \E level \in Levels : \E rating \in {0, 1, 10, 11} : \E body \in CodeBodies :
           RateLevelStart(1, level, rating, body)

CallGetLevel ==
    /\ calls[1].pc = "idle"
    /\ \E level_id \in LevelIdsAsked : \E timetuple \in Timetuples :
       \E body \in DownloadBodies :
           GetLevelStart(1, level_id, timetuple, body)

CallGetLevelDownloaded ==
    /\ calls[1].pc = "download"
    /\ \E body \in LevelSearchBodies : GetLevelDownloaded(1, body)

CallGetLevelSearched == GetLevelSearched(1)

CallTimely ==
    /\ calls[1].pc = "idle"
    /\ \E type \in {"daily", "weekly", "monthly"} : \E body \in TimelyBodies :
           TimelyStart(1, type, body)

CallTimelyReply ==
    /\ calls[1].pc = "awaiting"
    /\ \E body \in DownloadBodies : TimelyReply(1, body)

NextCall ==
    \/ CallLogin \/ CallLoginReply
    \/ CallSearch \/ CallSearchReply
    \/ CallRateDemon
    \/ CallUploadLevel
    \/ CallLoadSave
    \/ CallGetLevel \/ CallGetLevelDownloaded \/ CallGetLevelSearched
    \/ CallTimely \/ CallTimelyReply
    \/ CallReportLevel \/ CallDeleteLevel \/ CallUpdateLevelDesc
    \/ CallPostComment \/ CallPostCommentReply
    \/ CallCommentLevel \/ CallCommentLevelReply
    \/ CallDeleteComment \/ CallDeleteCommentReply
    \/ CallAcceptFriendReq \/ CallAcceptFriendReqReply
    \/ CallReadFriendReq
    \/ CallLike
    \/ CallRetrievePageComments \/ CallRetrievePageCommentsReply
    \/ CallGetTop \/ CallGetUserList
    \/ CallReadMessage \/ CallReadMessageReply
    \/ CallRateLevel

SpecCall == InitCall /\ [][NextCall]_vars

(***************************************************************************)
(* Several calls on one Client, interleaved at their awaits by the one     *)
(* event loop: a call runs from a resumption to its next await, or to its  *)
(* end, without any other call running in between.                         *)
(***************************************************************************)
MaxCalls == 2

SessionLoginBodies ==
    { TextBody(<<"1", ",", "2">>), TextBody(<<"2", ",", "1", ",", "x">>),
      TextBody(<<"-", "1">>), TextBody(<<"1", "2">>) }

SessionPageBodies ==
    { ErrorCodeBody, SectionsBody(<<<<LevelOne>>, CreatorSection, SongSection>>) }

InitSession ==
    /\ client \in {IdleClient, LoggedClient}
    /\ requests = <<>>
    /\ calls = [s \in 1..MaxCalls |-> IdleCall]
    /\ last = 0
    /\ applied = <<ClientCredentials(client)>>
    /\ GatherIdle

SessionLogin ==
    \E s \in 1..MaxCalls : \E cred \in Credentials : \E body \in SessionLoginBodies :
        LoginStart(s, cred[1], cred[2], body)

SessionLoginReply == \E s \in 1..MaxCalls : LoginReply(s)

SessionSearch ==
    \E s \in 1..MaxCalls : \E strategy \in Strategies : \E body \in SessionPageBodies :
        SearchStart(s, 0, <<"q">>, strategy, NoUser, None, TRUE, body)

SessionSearchReply == \E s \in 1..MaxCalls : SearchReply(s)

SessionRateDemon == \E s \in 1..MaxCalls : RateDemonStart(s, 1, 1, FALSE, TextBody(<<"1">>))

SessionUploadLevel ==
    \E s \in 1..MaxCalls : UploadLevelStart(s, 0, None, TRUE, FALSE, TextBody(<<"1">>))

SessionLoadSave == \E s \in 1..MaxCalls : LoadSaveStart(s, TextBody(<<"x">>))

NextSession ==
    \/ SessionLogin \/ SessionLoginReply
    \/ SessionSearch \/ SessionSearchReply
    \/ SessionRateDemon
    \/ SessionUploadLevel
    \/ SessionLoadSave

SpecSession == InitSession /\ [][NextSession]_vars

(***************************************************************************)
(* C5: login(client, user, password) on a successful reply 'A,I' followed  *)
(* by any number of further comma-separated fields sets the Client's       *)
(* account_id to integer A, id to integer I, name to user and password to  *)
(* password; the trailing fields have no effect on the Client.             *)
(***************************************************************************)
\* the reply is the text of integer a, a comma, the text of integer i, and then
\* nothing or a comma and anything
ReplyStartsWith(cs, a, i) ==
    LET head == IntToText(a) \o <<",">> \o IntToText(i)
    IN  /\ Len(cs) >= Len(head)
        /\ SubSeq(cs, 1, Len(head)) = head
        /\ (Len(cs) > Len(head) => cs[Len(head) + 1] = ",")

\* the integers written somewhere in the reply
IntsWrittenIn(cs) ==
    {ParseInt(SubSeq(cs, j, k)) : <<j, k>> \in
        {jk \in (1..Len(cs)) \X (1..Len(cs)) : IsIntText(SubSeq(cs, jk[1], jk[2]))}}

C5_LoginSetsAllFourFields ==
    (calls[1].op = "login" /\ calls[1].pc = "done") =>
        \A a, i \in IntsWrittenIn(calls[1].body.chars) :
            ReplyStartsWith(calls[1].body.chars, a, i) =>
                /\ calls[1].out = Return(None)
                /\ client.account_id = a /\ client.id = i
                /\ client.name = calls[1].args.user
                /\ client.password = calls[1].args.password
                /\ client.save = "none" /\ client.save_api = "none"

C5_Witness ==
    /\ calls[1].op = "login" /\ calls[1].pc = "done"
    /\ calls[1].body.chars = <<"2", ",", "1", ",", "-">>
    /\ client = [LoggedClient EXCEPT !.name = "u2", !.password = "p2",
                                     !.account_id = 2, !.id = 1]

(***************************************************************************)
(* C1: run_many, given the results of its tasks in submission order, drops *)
(* every falsy result (empty list, 0, empty string, None); if every        *)
(* remaining result is iterable it returns the concatenation of their      *)
(* elements, otherwise the remaining results unchanged;                    *)
(* [[], [1,2], [3]] gives [1,2,3] and [1,2,3] gives [1,2,3].               *)
(***************************************************************************)
Falsy == { ListV(<<>>), IntV(0), StrV(<<>>), None }

RECURSIVE DropFalsy(_)
DropFalsy(res) ==
    IF res = <<>> THEN <<>>
    ELSE IF Head(res) \in Falsy THEN DropFalsy(Tail(res))
         ELSE <<Head(res)>> \o DropFalsy(Tail(res))

RECURSIVE Concatenation(_)
Concatenation(res) ==
    IF res = <<>> THEN <<>>
    ELSE (IF Head(res).k = "list" THEN Head(res).items
          ELSE [i \in 1..Len(Head(res).chars) |-> StrV(<<Head(res).chars[i]>>)])
         \o Concatenation(Tail(res))

C1_RunManyDropsFalsyThenFlattens ==
    rm.st = "returned" =>
        LET rest == DropFalsy(Results)
        IN  /\ (\A i \in 1..Len(rest) : rest[i].k \in {"list", "str"})
                => rm.res = Concatenation(rest)
            /\ (\E i \in 1..Len(rest) : rest[i].k \in {"int", "none"})
                => rm.res = rest
            /\ Results = <<ListV(<<>>), ListV(<<IntV(1), IntV(2)>>), ListV(<<IntV(3)>>)>>
                => rm.res = <<IntV(1), IntV(2), IntV(3)>>
            /\ Results = <<IntV(1), IntV(2), IntV(3)>>
                => rm.res = <<IntV(1), IntV(2), IntV(3)>>

C1_Witness ==
    /\ rm.st = "returned"
    /\ Results = <<ListV(<<>>), ListV(<<IntV(1), IntV(2)>>), ListV(<<IntV(3)>>)>>
    /\ rm.res = <<IntV(1), IntV(2), IntV(3)>>

(***************************************************************************)
(* C4: run_many gives control back to its caller, with a result or with an *)
(* exception, only after every task it was given has completed.            *)
(***************************************************************************)
C4_RunManyFinishesAfterAllTasks ==
    rm.st \in {"returned", "raised"} =>
        \A i \in 1..Len(tasks) : ~Unfinished(i)

(***************************************************************************)
(* C6: login applies its four fields as one step of the event loop, so no  *)
(* operation running concurrently on the same Client observes, or builds a *)
(* request from, a partially applied login: the Client always holds the    *)
(* credentials it began with or all four of one returned login, and every  *)
(* set of parameters built with credentials pairs an account id with the   *)
(* password of the same login.                                             *)
(***************************************************************************)
FromOneLogin(params) ==
    "accountid" \in DOMAIN params =>
        \E j \in 1..Len(applied) :
            /\ params["accountid"] = IntV(applied[j][3])
            /\ params["gjp"] = [gjp |-> applied[j][2]]

C6_NoPartiallyAppliedLoginObserved ==
    /\ ClientCredentials(client) = applied[Len(applied)]
    /\ \A i \in 1..Len(requests) : FromOneLogin(requests[i].params)
    /\ \A s \in 1..Len(calls) :
           calls[s].op \in {"rate_demon", "upload_level"} => FromOneLogin(calls[s].mem.parameters)

\* a search that started while a login was in flight sent the old credentials whole;
\* the login has since returned and the search is still waiting
C6_Witness ==
    /\ Len(calls) = MaxCalls
    /\ \E s, t \in 1..Len(calls) :
           /\ calls[s].op = "login" /\ calls[s].pc = "done" /\ calls[s].out = Return(None)
           /\ calls[t].op = "search_levels_on_page" /\ calls[t].pc = "awaiting"
    /\ Len(requests) = 2
    /\ requests[1].route = "LOGIN"
    /\ requests[2].route = "LEVEL_SEARCH"
    /\ "accountid" \in DOMAIN requests[2].params
    /\ requests[2].params["accountid"] = IntV(LoggedClient.account_id)
    /\ requests[2].params["gjp"] = [gjp |-> LoggedClient.password]
    /\ applied = <<ClientCredentials(LoggedClient), <<"u2", "p2", 2, 1>>>>
    /\ ClientCredentials(client) = <<"u2", "p2", 2, 1>>

(***************************************************************************)
(* C7: the only session operations that write fields of a Client are login *)
(* and load_save; a step of any other operation leaves every field of the  *)
(* Client as it was, whatever the server replies.                          *)
(***************************************************************************)
C7_OnlyLoginAndLoadSaveWriteClient ==
    [][client' # client =>
          \E s \in 1..Len(calls) :
              /\ calls'[s].pc # calls[s].pc
              /\ calls'[s].op \in {"login", "load_save"}]_vars

\* a login wrote the Client, and a search that ran to its end afterwards left it so
C7_Witness ==
    /\ Len(calls) = MaxCalls
    /\ \E s, t \in 1..Len(calls) :
           /\ calls[s].op = "login" /\ calls[s].pc = "done" /\ calls[s].out = Return(None)
           /\ calls[t].op = "search_levels_on_page" /\ calls[t].pc = "done"
           /\ calls[t].out.k = "return"
           /\ last = t
    /\ Len(applied) = 2
    /\ ClientCredentials(client) = applied[2]
    /\ ClientCredentials(client) # applied[1]

(***************************************************************************)
(* C8: search_levels_on_page with strategy BY_USER and no user, or with    *)
(* strategy FRIENDS, on a Client that is not logged in raises the          *)
(* must-be-logged-in error before any request is sent.                     *)
(***************************************************************************)
NeedsLogin(args) ==
    \/ args.strategy = "BY_USER" /\ args.user = NoUser
    \/ args.strategy = "FRIENDS"

C8_SearchNeedsLoginBeforeRequest ==
    ( /\ calls[1].op = "search_levels_on_page"
      /\ NeedsLogin(calls[1].args)
      /\ client = IdleClient )
    => /\ calls[1].pc = "done"
       /\ calls[1].out = Raise("NotLoggedIn")
       /\ requests = <<>>

C8_Witness ==
    /\ calls[1].op = "search_levels_on_page"
    /\ calls[1].args.strategy = "BY_USER" /\ calls[1].args.user = NoUser
    /\ client = IdleClient
    /\ calls[1].pc = "done"
    /\ calls[1].out = Raise("NotLoggedIn")
    /\ requests = <<>>

(***************************************************************************)
(* C9: rate_demon returns boolean true when the server's reply is a        *)
(* positive integer, returns false when the reply is empty or zero, and    *)
(* raises in neither of these two cases.                                   *)
(***************************************************************************)
PositiveIntegerReply(body) ==
    IsDigit(body.chars) /\ \E i \in 1..Len(body.chars) : body.chars[i] # "0"

EmptyOrZeroReply(body) ==
    body.chars = <<>> \/ (IsIntText(body.chars) /\ \A i \in 1..Len(body.chars) :
                                                     body.chars[i] \in {"0", "-"})

C9_RateDemonBooleanForReply ==
    (calls[1].op = "rate_demon" /\ calls[1].pc = "done") =>
        /\ PositiveIntegerReply(calls[1].body) => calls[1].out = Return(BoolV(TRUE))
        /\ EmptyOrZeroReply(calls[1].body) => calls[1].out = Return(BoolV(FALSE))

(***************************************************************************)
(* C10, as the program has it: the password field upload_level builds for  *)
(* its request is 1 when the level is copyable and the password is None;   *)
(* 0 when it is not copyable and the password is None; 1000000 + p for     *)
(* every password written only in decimal digits whose value p is below    *)
(* 1000000; 0 for every other password, a numeric one of 1000000 or more   *)
(* included.                                                               *)
(***************************************************************************)
RECURSIVE PowerOfTen(_)
PowerOfTen(n) == IF n = 0 THEN 1 ELSE 10 * PowerOfTen(n - 1)

RECURSIVE ValueOfDigits(_)
ValueOfDigits(cs) ==
    IF cs = <<>> THEN 0
    ELSE DigitValue(Head(cs)) * PowerOfTen(Len(cs) - 1) + ValueOfDigits(Tail(cs))

PurelyNumeric(pw) ==
    \/ pw.k = "int" /\ pw.n >= 0
    \/ pw.k = "str" /\ pw.chars # <<>> /\ \A i \in 1..Len(pw.chars) : pw.chars[i] \in Digits

ValueOf(pw) == IF pw.k = "int" THEN pw.n ELSE ValueOfDigits(pw.chars)

TimelyReplyStartsWith(cs, n, c) ==
    LET head == IntToText(n) \o <<"|">> \o IntToText(c)
    IN  /\ Len(cs) >= Len(head)
        /\ SubSeq(cs, 1, Len(head)) = head
        /\ (Len(cs) > Len(head) => cs[Len(head) + 1] = "|")

AllFieldsIntegers(cs) ==
    \A i \in 1..Len(Split(cs, "|")) : IsIntText(Split(cs, "|")[i])

TimelyFetched(call, i, n, c) ==
    /\ call.mem.level_id = 0 - (i + 1)
    /\ call.mem.timetuple = <<i + 1, n % 100000, c>>
    /\ \E r \in 1..Len(requests) :
           /\ requests[r].route = "DOWNLOAD_LEVEL"
           /\ requests[r].params["levelid"] = IntV(0 - (i + 1))
    /\ (call.pc = "done" /\ call.out.k = "return")
           => call.out.val.ext = <<i + 1, n % 100000, c>>

TimelyReplyHandled(call) ==
    /\ call.op = "get_timely"
    /\ call.pc \notin {"idle", "awaiting"}
    /\ call.args.type \in {"daily", "weekly"}

C11_TimelyFetchOfIntegerReply ==
    TimelyReplyHandled(calls[1]) =>
        LET cs == calls[1].args.reply.chars
            i == IF calls[1].args.type = "daily" THEN 0 ELSE 1
        IN  /\ \A n, c \in IntsWrittenIn(cs) :
                   (TimelyReplyStartsWith(cs, n, c) /\ AllFieldsIntegers(cs))
                       => TimelyFetched(calls[1], i, n, c)
            /\ (cs = <<"5", "|", "3", "0", "0", "|", "7">> /\ i = 0)
                   => /\ calls[1].mem.level_id = -1
                      /\ calls[1].mem.timetuple = <<1, 5, 300>>

C11_Witness ==
    /\ calls[1].op = "get_timely" /\ calls[1].pc = "done"
    /\ calls[1].args.type = "daily"
    /\ calls[1].args.reply = TextBody(<<"5", "|", "3", "0", "0", "|", "7">>)
    /\ calls[1].mem.level_id = -1
    /\ calls[1].out.k = "return"
    /\ calls[1].out.val.ext = <<1, 5, 300>>
    /\ Len(requests) = 3
    /\ requests[2] = Request("DOWNLOAD_LEVEL", Put(<<>>, "levelid", IntV(-1)))

(***************************************************************************)
(* C11, as stated: get_timely(type) with type at index i of (daily,        *)
(* weekly) and a non-empty reply 'n|c|...', whatever follows c, performs a *)
(* level fetch with level id -(i+1) and injected fields type = i+1,        *)
(* number = n mod 100000, cooldown = c.                                    *)
(***************************************************************************)
C11_AsStated ==
    TimelyReplyHandled(calls[1]) =>
        LET cs == calls[1].args.reply.chars
            i == IF calls[1].args.type = "daily" THEN 0 ELSE 1
        IN  \A n, c \in IntsWrittenIn(cs) :
                TimelyReplyStartsWith(cs, n, c) => TimelyFetched(calls[1], i, n, c)

(***************************************************************************)
(* C12: get_level issues its search request only after the reply to its    *)
(* download request has arrived; the search is keyed by the level id found *)
(* in the download reply, not by the requested id; and when the download   *)
(* is answered with error code -1 no search request is issued at all.      *)
(***************************************************************************)
SearchRequests == {r \in 1..Len(requests) : requests[r].route = "LEVEL_SEARCH"}

C12_SearchAfterDownloadByRealId ==
    calls[1].op = "get_level" =>
        /\ calls[1].pc = "download" => SearchRequests = {}
        /\ \A r \in SearchRequests :
               /\ r > 1 /\ requests[r - 1].route = "DOWNLOAD_LEVEL"
               /\ calls[1].mem.download \in {DownloadBody(LevelOne), DownloadBody(LevelTwo)}
               /\ calls[1].mem.download = DownloadBody(LevelOne)
                      => requests[r].params["search"] = IntV(LevelOne.id)
               /\ calls[1].mem.download = DownloadBody(LevelTwo)
                      => requests[r].params["search"] = IntV(LevelTwo.id)
        /\ (calls[1].pc = "done" /\ requests # <<>> /\ calls[1].mem.download = ErrorCodeBody)
               => SearchRequests = {} /\ calls[1].out = Raise("MissingAccess")
        /\ (calls[1].pc \in {"search", "done"} /\ calls[1].mem.level_id >= -2
                /\ calls[1].mem.download # ErrorCodeBody)
               => SearchRequests # {}

\* the daily slot -1 was asked for, the download reply carried id 2, the search asked for 2
C12_Witness ==
    /\ calls[1].op = "get_level" /\ calls[1].pc = "done"
    /\ calls[1].args.level_id = -1
    /\ calls[1].mem.download = DownloadBody(LevelTwo)
    /\ requests = << Request("DOWNLOAD_LEVEL", Put(<<>>, "levelid", IntV(-1))),
                    Request("LEVEL_SEARCH", Put(<<>>, "search", IntV(2))) >>
    /\ calls[1].out.k = "return"
    /\ calls[1].out.val.id = 2

(***************************************************************************)
(* C13: every mutating operation of the session raises MissingAccess       *)
(* whenever the server's reply is not the success value that operation     *)
(* requires, including replies for which the operation registered no error *)
(* code; a negative code is the success value of no operation.             *)
(***************************************************************************)
MutatingOps ==
    { "report_level", "delete_level", "update_level_desc", "post_comment", "comment_level",
      "delete_comment", "accept_friend_req", "read_friend_req", "like" }

NegativeCode(body) ==
    /\ body.k = "str" /\ Len(body.chars) > 1
    /\ body.chars[1] = "-" /\ IsDigit(Tail(body.chars))
    /\ \E i \in 2..Len(body.chars) : body.chars[i] # "0"

C13_MutatingRaisesOnFailureReply ==
    ( /\ calls[1].op \in MutatingOps
      /\ calls[1].pc = "done"
      /\ requests # <<>>
      /\ NegativeCode(calls[1].body) )
    => calls[1].out = Raise("MissingAccess")

(***************************************************************************)
(* C14: a listing operation returns an empty list, without raising, when   *)
(* the reply body is empty, and raises NothingFound only when the server   *)
(* replies with a negative code that the operation maps to NothingFound.   *)
(***************************************************************************)
C14_ListingEmptyNotNothingFound ==
    ( /\ calls[1].op = "retrieve_page_comments"
      /\ calls[1].pc = "done"
      /\ requests # <<>> )
    => /\ calls[1].body.chars = <<>> => calls[1].out = Return(ListV(<<>>))
       /\ calls[1].out = Raise("NothingFound") => NegativeCode(calls[1].body)

(***************************************************************************)
(* C15: update_level_desc, read_friend_req and delete_level change the     *)
(* object they are given only when the server's reply is 1; on any other   *)
(* reply they raise MissingAccess and leave that object exactly as it was. *)
(***************************************************************************)
GivenObject(call) ==
    IF call.op = "read_friend_req" THEN call.args.req ELSE call.args.level

C15_ObjectChangedOnlyOnReplyOne ==
    ( /\ calls[1].op \in {"update_level_desc", "read_friend_req", "delete_level"}
      /\ calls[1].pc = "done" )
    => /\ calls[1].mem.object # GivenObject(calls[1]) => calls[1].body = TextBody(<<"1">>)
       /\ calls[1].body # TextBody(<<"1">>)
              => /\ calls[1].out = Raise("MissingAccess")
                 /\ calls[1].mem.object = GivenObject(calls[1])

LikeRequestAsClaimed(r, item, dislike) ==
    /\ r.route = "LIKE_ITEM"
    /\ r.params["itemid"] = IntV(item.id)
    /\ r.params["like"] = IntV(IF dislike THEN 0 ELSE 1)
    /\ item.kind = "level" => r.params["type"] = IntV(1) /\ r.params["special"] = IntV(0)
    /\ (item.kind = "comment" /\ item.type = 0)
           => r.params["type"] = IntV(2) /\ r.params["special"] = IntV(item.level_id)
    /\ (item.kind = "comment" /\ item.type = 1)
           => r.params["type"] = IntV(3) /\ r.params["special"] = IntV(item.id)
    /\ r.params["chk"].chk[1] = r.params["special"].n
    /\ r.params["chk"].chk[2] = r.params["itemid"].n
    /\ r.params["chk"].chk[3] = r.params["like"].n
    /\ r.params["chk"].chk[4] = r.params["type"].n

C17_LikeRequestFields ==
    ( /\ calls[1].op = "like"
      /\ calls[1].pc # "idle"
      /\ calls[1].args.item.kind \in {"level", "comment"} )
    => /\ Len(requests) = 1
       /\ LikeRequestAsClaimed(requests[1], calls[1].args.item, calls[1].args.dislike)

(***************************************************************************)
(* C18: like() called with an item that is neither a Level nor a Comment   *)
(* returns without raising, sends no request and changes no state.         *)
(***************************************************************************)
C18_LikeOfOtherItemIsNoOp ==
    ( /\ calls[1].op = "like"
      /\ calls[1].args.item.kind \notin {"level", "comment"} )
    => /\ calls[1].pc = "done"
       /\ calls[1].out = Return(None)
       /\ requests = <<>>
       /\ applied = <<ClientCredentials(client)>>
       /\ client.save = "none" /\ client.save_api = "none"
       /\ calls[1].mem.object = calls[1].args.item

C18_Witness ==
    /\ calls[1].op = "like"
    /\ calls[1].args.item = [kind |-> "song", id |-> 9]
    /\ calls[1].pc = "done"
    /\ calls[1].out = Return(None)
    /\ requests = <<>>
    /\ client = LoggedClient

(***************************************************************************)
(* C19: accept_friend_req given a friend request of the sent direction     *)
(* raises MissingAccess and issues no network request; only a              *)
(* received-direction request leads to an accept request being sent.       *)
(***************************************************************************)
C19_AcceptOnlyReceivedRequests ==
    calls[1].op = "accept_friend_req" =>
        /\ calls[1].args.req.type = 1
               => /\ calls[1].pc = "done"
                  /\ calls[1].out = Raise("MissingAccess")
                  /\ requests = <<>>
        /\ requests # <<>>
               => /\ calls[1].args.req.type = 0
                  /\ Len(requests) = 1
                  /\ requests[1].route = "ACCEPT_REQUEST"
                  /\ requests[1].params["requestid"] = IntV(calls[1].args.req.id)
        /\ calls[1].args.req.type = 0 => requests # <<>>

C19_Witness ==
    /\ calls[1].op = "accept_friend_req"
    /\ calls[1].args.req.type = 1
    /\ calls[1].pc = "done"
    /\ calls[1].out = Raise("MissingAccess")
    /\ requests = <<>>
    /\ calls[1].body = TextBody(<<"1">>)

(***************************************************************************)
(* C20: load_save reports every failure of its pipeline by returning false *)
(* instead of raising, and returns true only when both save objects were   *)
(* written onto the Client.                                                *)
(***************************************************************************)
C20_LoadSaveReturnsBoolean ==
    (calls[1].op = "load_save" /\ calls[1].pc = "done") =>
        /\ calls[1].out \in {Return(BoolV(TRUE)), Return(BoolV(FALSE))}
        /\ calls[1].out = Return(BoolV(TRUE))
               => client.save # "none" /\ client.save_api # "none"

(***************************************************************************)
(* C21: get_top sends wire type 'top' for the strategy whose value is 0    *)
(* and the lower-cased strategy name for every other strategy; for the     *)
(* strategies with value 1 or 2 the logged-in check runs before the        *)
(* request, so a Client that is not logged in never causes a leaderboard   *)
(* request for them, and the account id and password fields are added only *)
(* for them.                                                               *)
(***************************************************************************)
TopRequestAsClaimed(r, strategy) ==
    /\ r.route = "GET_USER_TOP"
    /\ strategy.value = 0 => r.params["type"] = "top"
    /\ strategy = LeaderboardStrategy("CREATORS", 3) => r.params["type"] = "creators"
    /\ strategy = LeaderboardStrategy("FRIENDS", 1) => r.params["type"] = "friends"
    /\ strategy = LeaderboardStrategy("RELATIVE", 2) => r.params["type"] = "relative"
    /\ "accountid" \in DOMAIN r.params <=> strategy.value \in {1, 2}
    /\ "gjp" \in DOMAIN r.params <=> strategy.value \in {1, 2}

C21_TopWireTypeAndLogin ==
    (calls[1].op = "get_top" /\ calls[1].pc # "idle") =>
        IF calls[1].args.strategy.value \in {1, 2} /\ ~IsLogged(client)
        THEN requests = <<>> /\ calls[1].out = Raise("NotLoggedIn")
        ELSE /\ Len(requests) = 1
             /\ TopRequestAsClaimed(requests[1], calls[1].args.strategy)

(***************************************************************************)
(* C22: every route the session orchestrator requests, that is every       *)
(* Route.NAME that GDSession refers to, is a named constant of the Route   *)
(* table, and the request of each session operation goes to exactly one    *)
(* such named route: get_user_list and retrieve_page_comments, once past   *)
(* their argument checks, have sent their one request.                     *)
(***************************************************************************)
C22_EveryRequestedRouteIsNamed ==
    /\ RoutesRequested \subseteq RouteNames
    /\ \A i \in 1..Len(requests) : requests[i].route \in RouteNames
    /\ (calls[1].op = "get_user_list" /\ calls[1].pc # "idle") => Len(requests) = 1
    /\ ( /\ calls[1].op = "retrieve_page_comments" /\ calls[1].pc # "idle"
         /\ calls[1].out # Raise("AssertionError") )
       => Len(requests) = 1

(***************************************************************************)
(* C23: read_message returns the plaintext obtained by decoding, with the  *)
(* message scheme, the body field of the server's reply to the message     *)
(* download request, and stores that same value as the Message's cached    *)
(* body; the body is not cached when the server replies with error code -1.*)
(***************************************************************************)
\* the value a flat record key:value:key:value... has under a key
HasField(cs, key) ==
    \E i \in 1..Len(Split(cs, ":")) : i % 2 = 1 /\ i < Len(Split(cs, ":")) /\ Split(cs, ":")[i] = key

FieldOf(cs, key) ==
    LET parts == Split(cs, ":")
    IN  parts[(CHOOSE i \in 1..Len(parts) : i % 2 = 1 /\ i < Len(parts) /\ parts[i] = key) + 1]

C23_ReadMessageDecodesAndCaches ==
    (calls[1].op = "read_message" /\ calls[1].pc = "done") =>
        /\ (calls[1].body.k = "str" /\ HasField(calls[1].body.chars, MessageBodyKey))
               => LET plain == StrV(MessageDecode(FieldOf(calls[1].body.chars, MessageBodyKey)))
                  IN  /\ calls[1].out = Return(plain)
                      /\ calls[1].mem.object.body = plain
        /\ calls[1].body = ErrorCodeBody
               => /\ calls[1].out = Raise("MissingAccess")
                  /\ calls[1].mem.object = calls[1].args.msg

(***************************************************************************)
(* C24: argument preconditions are checked before anything is sent:        *)
(* get_level with level_id < -2, rate_level with a rating outside 1..10    *)
(* and comment_level with percentage > 100 each fail, with the error of    *)
(* the failed assertion, without issuing any network request.              *)
(***************************************************************************)
FailedBeforeSending(call) ==
    /\ call.pc = "done"
    /\ call.out = Raise("AssertionError")
    /\ requests = <<>>

C24_PreconditionsBeforeRequests ==
    /\ (calls[1].op = "get_level" /\ calls[1].args.level_id < -2)
           => FailedBeforeSending(calls[1])
    /\ (calls[1].op = "rate_level" /\ calls[1].args.rating \notin 1..10)
           => FailedBeforeSending(calls[1])
    /\ (calls[1].op = "comment_level" /\ calls[1].args.percentage > 100)
           => FailedBeforeSending(calls[1])

C24_Witness ==
    /\ calls[1].op = "comment_level"
    /\ calls[1].args.percentage = 101
    /\ client = LoggedClient
    /\ calls[1].body = TextBody(<<"1">>)
    /\ FailedBeforeSending(calls[1])

(***************************************************************************)
(* C25: in the search request of search_levels_on_page the search field    *)
(* equals: for BY_USER with no explicit user, the logged-in Client's id,   *)
(* with the auth fields and the local flag set; for BY_USER with an        *)
(* explicit user, that user's id, or the integer itself when an integer is *)
(* given, with no auth fields and no local flag; for every other strategy, *)
(* FRIENDS included, the caller's query unchanged.                         *)
(***************************************************************************)
AuthFields == {"accountid", "gjp"}

C25_SearchFieldOfRequest ==
    (calls[1].op = "search_levels_on_page" /\ requests # <<>>) =>
        LET r == requests[1].params
            a == calls[1].args
        IN  /\ Len(requests) = 1 /\ requests[1].route = "LEVEL_SEARCH"
            /\ (a.strategy = "BY_USER" /\ a.user = NoUser)
                   => /\ IsLogged(client)
                      /\ r["search"] = IntV(client.id)
                      /\ AuthFields \subseteq DOMAIN r
                      /\ r["accountid"] = IntV(client.account_id)
                      /\ r["gjp"] = EncodedPass(client)
                      /\ "local" \in DOMAIN r /\ r["local"] = IntV(1)
            /\ (a.strategy = "BY_USER" /\ a.user # NoUser)
                   => /\ a.user = UserObject(8) => r["search"] = IntV(8)
                      /\ a.user = UserId(7) => r["search"] = IntV(7)
                      /\ AuthFields \cap DOMAIN r = {}
                      /\ "local" \notin DOMAIN r
            /\ a.strategy # "BY_USER" => r["search"] = StrV(a.query)

\* an integer was given as the user: the search field is that integer, whatever the
\* query and the Client
C25_Witness ==
    /\ calls[1].op = "search_levels_on_page"
    /\ calls[1].args.strategy = "BY_USER"
    /\ calls[1].args.user = UserId(7)
    /\ calls[1].args.query = <<"q">>
    /\ client = LoggedClient
    /\ Len(requests) = 1
    /\ requests[1].params["search"] = IntV(7)
    /\ DOMAIN requests[1].params = {"search", "page", "total", "strategy"}

(***************************************************************************)
(* C26: for each level record of a search_levels_on_page reply: when the   *)
(* record has no song id its song is the official track built from its     *)
(* audio-track index, otherwise its song is the entry of the reply's song  *)
(* section with that id; its creator is the entry of the reply's creator   *)
(* section with the record's creator id, or, when no entry has that id, an *)
(* identity named 'unknown' with account id 0 and the record's creator id. *)
(***************************************************************************)
\* the entries of a section that have an id
EntriesWithId(section, id) == {i \in 1..Len(section) : section[i].id = id}

LevelResolvedAsClaimed(level, record, creators, songs) ==
    /\ level.id = record.id
    /\ record.song_id = 0 => level.song = [id |-> record.audio_track, kind |-> "official"]
    /\ (record.song_id # 0 /\ EntriesWithId(songs, record.song_id) # {})
           => /\ level.song.kind = "custom"
              /\ level.song.id = record.song_id
    /\ EntriesWithId(creators, record.creator_id) # {}
           => \E i \in EntriesWithId(creators, record.creator_id) : level.creator = creators[i]
    /\ EntriesWithId(creators, record.creator_id) = {}
           => level.creator = [id |-> record.creator_id, name |-> "unknown", account_id |-> 0]

TwoIntegerFieldsFirst(cs) ==
    \E a, i \in IntsWrittenIn(cs) : ReplyStartsWith(cs, a, i)

C27_LoginAllOrNothing ==
    (calls[1].op = "login" /\ calls[1].pc = "done") =>
        LET cs == calls[1].body.chars
        IN  /\ calls[1].out.k = "raise"
                   => /\ ClientCredentials(client) = applied[1]
                      /\ client \in {IdleClient, LoggedClient}
            /\ cs = <<"-", "1">> => calls[1].out = Raise("LoginFailure")
            /\ ~TwoIntegerFieldsFirst(cs) => calls[1].out.k = "raise"
            /\ calls[1].out.k = "return"
                   => /\ client.name = calls[1].args.user
                      /\ client.password = calls[1].args.password
                      /\ \E a, i \in IntsWrittenIn(cs) :
                             /\ ReplyStartsWith(cs, a, i)
                             /\ client.account_id = a /\ client.id = i

\* the second field of the reply is no integer: the logged-in Client is as it was
C27_Witness ==
    /\ calls[1].op = "login" /\ calls[1].pc = "done"
    /\ calls[1].args.user = "u2"
    /\ calls[1].body = TextBody(<<"2", ",", "-">>)
    /\ calls[1].out = Raise("ValueError")
    /\ client = LoggedClient

(***************************************************************************)
(* C28: the Client's save and save_api are always updated together: after  *)
(* any load_save, successful or not, and at every point where a concurrent *)
(* operation can run, either both hold the objects built from the same     *)
(* downloaded backup or both are unchanged; in particular a load_save that *)
(* has not returned true has changed neither.                              *)
(***************************************************************************)
LoadSaveCalls == {s \in 1..Len(calls) : calls[s].op = "load_save"}

IsBoolean(out) == out \in {Return(BoolV(TRUE)), Return(BoolV(FALSE))}

C30_RateDemonAlwaysBoolean ==
    /\ \A body \in CodeBodies :
           LET http == HttpRequest(body, RateDemonCodes, TRUE)
           IN  http.k = "return" => IsBoolean(RateDemonResult(http))
    /\ ( /\ calls[1].op = "rate_demon" /\ calls[1].pc = "done"
         /\ calls[1].body # TextBody(<<"-", "2">>) )
       => IsBoolean(calls[1].out)

(***************************************************************************)
(* C31: every Level returned by search_levels_on_page carries a song and a *)
(* creator that are both present, never None, for every reply, replies     *)
(* where a level's song id does not occur in the reply's song section      *)
(* included.                                                               *)
(***************************************************************************)
Present(object) == "kind" \in DOMAIN object => object.kind # "None"

C31_SongAndCreatorPresent ==
    ( /\ calls[1].op = "search_levels_on_page"
      /\ calls[1].pc = "done"
      /\ requests # <<>>
      /\ calls[1].out.k = "return" )
    => \A i \in 1..Len(calls[1].out.val.items) :
           /\ Present(calls[1].out.val.items[i].song)
           /\ Present(calls[1].out.val.items[i].creator)

(***************************************************************************)
(* C32: get_timely raises MissingAccess when the timely-level request gets *)
(* an empty reply or error code -1, and in that case no level download     *)
(* request is issued.                                                      *)
(***************************************************************************)
C32_TimelyEmptyOrMinusOne ==
    ( /\ TimelyReplyHandled(calls[1])
      /\ calls[1].args.reply \in {TextBody(<<>>), TextBody(<<"-", "1">>)} )
    => /\ calls[1].pc = "done"
       /\ calls[1].out = Raise("MissingAccess")
       /\ Len(requests) = 1
       /\ requests[1].route = "GET_TIMELY"
       /\ \A r \in 1..Len(requests) : requests[r].route # "DOWNLOAD_LEVEL"

\* the weekly level was asked for and the reply was empty
C32_Witness ==
    /\ calls[1].op = "get_timely" /\ calls[1].pc = "done"
    /\ calls[1].args.type = "weekly"
    /\ calls[1].args.reply = TextBody(<<>>)
    /\ calls[1].out = Raise("MissingAccess")
    /\ requests = <<Request("GET_TIMELY", Put(<<>>, "weekly", IntV(1)))>>

====
